---- MODULE Spec2Model ----
(***************************************************************************)
(* OMU-UBYS-BOT: the polling orchestrator (main.py, driven by gui.py), the *)
(* session life cycle of one fetch (main.py, login.py), the snapshot store *)
(* (html1.py), the change detector (grade_change_detector.py) and the      *)
(* alert store (error_tracker.py).                                         *)
(*                                                                         *)
(* Several specifications share this module; each leaves the variables of *)
(* the others untouched:                                                   *)
(*   Spec         the GUI's start/stop, the loop threads of                 *)
(*                run_monitoring_loop and the pool tasks (process_user)     *)
(*   SpecFetch    one call of SessionManager.fetch_student_data             *)
(*   SpecStore    concurrent HtmlParser._save_grades_to_file calls and a    *)
(*                reader of student_grades.json                             *)
(*   SpecCompare  GradeChangeDetector._compare_courses on bounded inputs    *)
(*   SpecLive     main.py run as a script: one loop, with the settings and  *)
(*                the account list edited between iterations; SpecLiveFair  *)
(*                adds the scheduling of its threads, SpecPool starts it    *)
(*                with more accounts than pool workers, SpecEmpty with an   *)
(*                empty account list                                        *)
(*   SpecFlag     the auto-survey setting edited between iterations         *)
(*   SpecAlerts   the methods of ErrorTracker on error_tracking.json        *)
(*   SpecDetect   GradeChangeDetector.detect_changes / get_notifications    *)
(*                called again and again while workers save snapshots       *)
(*   SpecExams    GradeChangeDetector._compare_exams on bounded inputs      *)
(*   SpecParse    the cycles of one account through HtmlParser              *)
(*   SpecStop     the GUI's start/stop with one account and the scheduling  *)
(*                of the loop and pool threads                              *)
(*   SpecWait     the wait between two iterations for every saved delay     *)
(* Times are in tenths of a second.                                         *)
(***************************************************************************)
EXTENDS Integers, Sequences, FiniteSets, TLC

\* ------------------------------------------------------------------ bounds
NumAccounts == 2
NumUsers == 4
MaxStarts == 2
MaxTime == 2
MaxCourses == 2
MaxExams == 2
MaxStamp == 1
MaxDelay == 11

\* ------------------------------------------------------- program constants
MaxPoolWorkers == 3
CheckInterval == 5

Accounts == 1..NumAccounts
\* the accounts users_config.json can list: enough of them to fill the pool
Users == 1..NumUsers
Loops == 1..MaxStarts
\* request_delay values a settings file may hold (0 s and 1 s)
Delays == {0, 10}

VARIABLES
    \* ---- Spec: orchestrator
    bot_running,     \* main._bot_running
    is_running,      \* BotGUI.is_running
    starts,          \* number of bot threads the GUI has started so far
    settings_file,   \* "request_delay" of bot_settings.json
    REQUEST_DELAY,   \* config.REQUEST_DELAY
    users_file,      \* users_config.json: the account list
    pc,              \* per bot thread: its position in run_bot/run_monitoring_loop
    user_list,       \* per bot thread: the local user_list
    fut,             \* per bot thread: index of the future the for loop is at
    task,            \* per bot thread, per account: state of the submitted process_user
    current_delay,   \* per bot thread: the local current_delay
    elapsed,         \* per bot thread: the local elapsed
    stop_in_wait,    \* history: stop_bot was called while the thread was in its wait
    stop_requested,  \* history, per bot thread: a stop_bot call since the thread started
    users_py,        \* users.user_list, the list users.py is edited to hold
    fetch_errors,    \* error_tracking.json: the accounts with a "fetch_errors" entry
    \* ---- SpecStore: student_grades.json and the workers saving to it
    grades_file,     \* the file: absent, a complete JSON object, empty or partly written
    save_pc,         \* per account: position of its worker in _save_grades_to_file
    all_grades,      \* per account: the worker's local all_grades
    courses,         \* per account: the worker's self.courses, the snapshot it fetched
    clobbered,       \* per account: another writer touched the file while this one had it open
    observed,        \* what the last load of a reader found
    \* ---- SpecFetch: one call of SessionManager.fetch_student_data
    fpc,             \* position in fetch_student_data / get_page_content
    result,          \* how the call ended: "true", "false" or "raise"
    now,             \* time.time()
    session_start_time,
    SESSION_TIMEOUT, \* config.SESSION_TIMEOUT
    AUTO_SURVEY,     \* login.AUTO_SURVEY
    html_content,    \* get_page_content's local html_content
    opens,           \* history: OMULogin handlers created
    first_login,     \* history: how the login of line 101 ended
    parsers,         \* history: HtmlParser instances built (each notifies and saves)
    snapshot,        \* the account's entry of student_grades.json
    closes,          \* history: OMULogin.close calls
    logins,          \* history: OMULogin.login calls
    renewals,        \* history: login calls made by _renew_session
    renew_outcome,   \* history: how _renew_session ended
    age_at_check,    \* history: the session age when _is_session_expired ran
    page_gets,       \* history: retrievals of the page by get_page_content
    first_page,      \* history: what the first retrieval returned
    survey_passes,   \* history: check_and_complete_survey calls
    survey_gets,     \* history: requests of the page made inside check_and_complete_survey
    \* ---- SpecCompare: one call of GradeChangeDetector._compare_courses
    old_courses,     \* the argument old_courses
    new_courses,     \* the argument new_courses
    changes,         \* the dictionary returned
    cmp_pc,          \* "call" before the call, "done" after it
    \* ---- SpecDetect: GradeChangeDetector and the two files it works on
    student_grades,  \* student_grades.json as _load_grades finds it: account -> entry
    changes_file,    \* grade_changes.json: the state persisted by _save_changes
    all_changes,     \* what the detect_changes call in progress returns
    notifications,   \* what the get_notifications call in progress returns
    previous_state,  \* detect_changes' local previous_state
    det_pc,          \* "idle", or "called" until the caller has taken the result
    same_calls,      \* history: calls made since student_grades.json last changed (up to 2)
    \* ---- SpecExams: one call of GradeChangeDetector._compare_exams
    exams_old,       \* the argument old_exams
    exams_new,       \* the argument new_exams
    exam_changes,    \* the list returned
    exams_pc,        \* "call" before the call, "done" after it
    \* ---- SpecParse: the fetch cycles of one account, each with its own HtmlParser
    parse_pc,        \* position in HtmlParser.__init__ / _send_telegram_notification
    parsed_courses,  \* self.courses
    previous_data,   \* self.previous_data
    stored_courses,  \* the account's "courses" in student_grades.json
    token_set,       \* TELEGRAM_BOT_TOKEN and TELEGRAM_CHAT_ID are configured
    sent,            \* history: messages posted to Telegram in this cycle
    delivery,        \* history: how the send of this cycle ended
    save_outcome,    \* history: how _save_grades_to_file of this cycle ended
    \* ---- SpecFlag: the auto-survey setting across iterations
    auto_survey_file,   \* "auto_survey" of bot_settings.json
    config_AUTO_SURVEY, \* config.AUTO_SURVEY
    flag_pc,            \* "wait" between iterations, "run" inside one
    \* ---- SpecAlerts: ErrorTracker and error_tracking.json
    tracking_file,   \* the file: absent, unreadable, or the JSON value it holds
    alert_clock,     \* datetime.now() of the latest record call
    alert_written,   \* the latest call wrote the file
    alert_result     \* what the latest call returned, or "raised"

orchVars == <<bot_running, is_running, starts, settings_file, REQUEST_DELAY,
              users_file, pc, user_list, fut, task, current_delay, elapsed, stop_in_wait,
              stop_requested, fetch_errors, users_py>>

storeVars == <<grades_file, save_pc, all_grades, courses, clobbered, observed>>

fetchVars == <<fpc, result, now, session_start_time, SESSION_TIMEOUT, AUTO_SURVEY,
               html_content, opens, first_login, parsers, snapshot, closes, logins, renewals, renew_outcome,
               age_at_check, page_gets, first_page, survey_passes, survey_gets>>

cmpVars == <<old_courses, new_courses, changes, cmp_pc>>

detectVars == <<student_grades, changes_file, all_changes, notifications,
                previous_state, det_pc, same_calls>>

examVars == <<exams_old, exams_new, exam_changes, exams_pc>>

parseVars == <<parse_pc, parsed_courses, previous_data, stored_courses, token_set, sent,
               delivery, save_outcome>>

flagVars == <<auto_survey_file, config_AUTO_SURVEY, flag_pc>>

alertVars == <<tracking_file, alert_clock, alert_written, alert_result>>

vars == <<orchVars, storeVars, fetchVars, cmpVars, detectVars, examVars, parseVars,
          flagVars, alertVars>>

\* a step of one specification leaves the variables of the others alone
OrchOnly == UNCHANGED <<storeVars, fetchVars, cmpVars, detectVars, examVars, parseVars, flagVars, alertVars>>
StoreOnly == UNCHANGED <<orchVars, fetchVars, cmpVars, detectVars, examVars, parseVars, flagVars, alertVars>>
FetchOnly == UNCHANGED <<orchVars, storeVars, cmpVars, detectVars, examVars, parseVars, flagVars, alertVars>>
CompareOnly == UNCHANGED <<orchVars, storeVars, fetchVars, detectVars, examVars, parseVars, flagVars, alertVars>>
DetectOnly == UNCHANGED <<orchVars, storeVars, fetchVars, cmpVars, examVars, parseVars, flagVars, alertVars>>
ExamsOnly == UNCHANGED <<orchVars, storeVars, fetchVars, cmpVars, detectVars, parseVars, flagVars, alertVars>>
ParseOnly == UNCHANGED <<orchVars, storeVars, fetchVars, cmpVars, detectVars, examVars, flagVars, alertVars>>
AlertsOnly == UNCHANGED <<orchVars, storeVars, fetchVars, cmpVars, detectVars, examVars,
                          parseVars, flagVars>>

Min(a, b) == IF a < b THEN a ELSE b

\* users.py, lines 19-25, as shipped: one entry, the placeholder account of
\* the example ("replace with your actual data"); it is written as account 1
example_user_list == <<1>>

\* --------------------------------------------------------------- config.py
\* load_users: the list of users_config.json
load_users == users_file

\* load_settings: REQUEST_DELAY is read from the settings file
load_settings_Stale == REQUEST_DELAY' = REQUEST_DELAY

load_settings == REQUEST_DELAY' = settings_file

\* ------------------------------------------------------------------ gui.py
\* BotGUI.start_bot: guarded by the user list and is_running; reloads the
\* settings and starts a new daemon thread running run_bot
start_bot ==
    /\ OrchOnly
    /\ Len(users_file) > 0
    /\ ~is_running
    /\ starts < MaxStarts
    /\ is_running' = TRUE
    /\ load_settings
    /\ starts' = starts + 1
    /\ pc' = [pc EXCEPT ![starts + 1] = "run"]
    /\ UNCHANGED <<bot_running, settings_file, users_file, user_list,
                   fut, task, current_delay, elapsed, stop_in_wait, stop_requested, fetch_errors, users_py>>

\* main.stop_bot, line 224: the flag after the call, given the flag before it
stop_flag_Toggle(b) == ~b

stop_flag(b) == FALSE

\* bot thread l is inside run_monitoring_loop, past line 159
InLoop(l) == pc[l] \in {"while", "reload", "for", "result", "shutdown", "after_pool",
                        "sleep_check", "sleeping", "finally"}

\* main.stop_bot: clears the shared flag. The history of thread l notes a call
\* made while l was in the loop ("loop") or, before that, while l had been
\* started and had not yet entered it ("early")
stop_bot ==
    /\ bot_running' = stop_flag(bot_running)
    /\ stop_in_wait' = [l \in Loops |-> stop_in_wait[l] \/ pc[l] \in {"sleep_check", "sleeping"}]
    /\ stop_requested' = [l \in Loops |->
                              IF InLoop(l) THEN "loop"
                              ELSE IF pc[l] = "run" /\ stop_requested[l] = "no" THEN "early"
                              ELSE stop_requested[l]]

\* BotGUI.stop_bot: a no-op unless is_running; clears is_running, calls main.stop_bot
gui_stop_bot ==
    /\ OrchOnly
    /\ is_running
    /\ is_running' = FALSE
    /\ stop_bot
    /\ UNCHANGED <<starts, settings_file, REQUEST_DELAY, users_file, pc, user_list,
                   fut, task, current_delay, elapsed, fetch_errors, users_py>>

\* BotGUI.save_general_settings: writes the settings file, then config.load_settings
save_general_settings(d) ==
    /\ OrchOnly
    /\ settings_file # d
    /\ settings_file' = d
    /\ REQUEST_DELAY' = d
    /\ UNCHANGED <<bot_running, is_running, starts, users_file, pc, user_list,
                   fut, task, current_delay, elapsed, stop_in_wait, stop_requested, fetch_errors, users_py>>

\* ----------------------------------------------------------------- main.py
\* the frame of a step of bot thread l that touches no shared variable but bot_running
LoopFrame == OrchOnly /\ UNCHANGED <<is_running, starts, settings_file, users_file, fetch_errors, users_py>>

\* users.user_list: the list of users.py
users_user_list == users_py

\* line 164, config.load_users_from_env() or users.user_list: an empty loaded
\* list is false, and the list of users.py is taken instead
loaded_users == IF Len(load_users) > 0 THEN load_users ELSE users_user_list

\* run_monitoring_loop, lines 158-173: sets the flag, loads the users, returns
\* at once (outside the try) when there is none
run_init(l) ==
    /\ pc[l] = "run"
    /\ bot_running' = TRUE
    /\ user_list' = [user_list EXCEPT ![l] = loaded_users]
    /\ pc' = [pc EXCEPT ![l] = IF Len(loaded_users) = 0 THEN "returned" ELSE "while"]
    /\ LoopFrame
    /\ UNCHANGED <<REQUEST_DELAY, fut, task, current_delay,
                   elapsed, stop_in_wait, stop_requested>>

max_workers_NoCap(l) == Len(user_list[l])

max_workers(l) == Min(MaxPoolWorkers, Len(user_list[l]))

\* line 177: the while test
while_check(l) ==
    /\ pc[l] = "while"
    /\ IF bot_running
         THEN pc' = [pc EXCEPT ![l] = "reload"]
         ELSE pc' = [pc EXCEPT ![l] = "finally"]
    /\ LoopFrame
    /\ UNCHANGED <<bot_running, REQUEST_DELAY, user_list, fut, task, current_delay, elapsed, stop_in_wait, stop_requested>>

\* lines 181-187: config.load_settings, then one process_user is submitted per
\* entry of user_list
reload_and_submit(l) ==
    /\ pc[l] = "reload"
    /\ load_settings
    /\ task' = [task EXCEPT ![l] = [a \in Users |->
                   IF \E i \in 1..Len(user_list[l]) : user_list[l][i] = a
                     THEN "queued" ELSE "none"]]
    /\ fut' = [fut EXCEPT ![l] = 1]
    /\ pc' = [pc EXCEPT ![l] = "for"]
    /\ LoopFrame
    /\ UNCHANGED <<bot_running, user_list, current_delay, elapsed, stop_in_wait, stop_requested>>

\* a Future is finished when process_user returned ("skipped", "done_*") or
\* raised ("raised")
TaskDone(s) == s \in {"skipped", "done_ok", "done_fail", "done_exc", "raised"}

\* lines 190-192: the for loop over the futures and its stop test
for_check(l) ==
    /\ pc[l] = "for"
    /\ pc' = [pc EXCEPT ![l] =
                 IF fut[l] > Len(user_list[l]) \/ ~bot_running THEN "shutdown" ELSE "result"]
    /\ LoopFrame
    /\ UNCHANGED <<bot_running, REQUEST_DELAY, user_list, fut, task,
                   current_delay, elapsed, stop_in_wait, stop_requested>>

\* lines 193-196: where the for loop goes after future.result returned ("returned"),
\* timed out ("timeout") or re-raised the task's exception ("raised"): the
\* except clause catches every Exception and the loop goes on
after_result_NoExcept(r) == IF r = "returned" THEN "for" ELSE "finally"

after_result(r) == "for"

\* process_user, lines 142-150: what the future of a task holds, given how
\* fetch_student_data ended (True, False, or an exception, which is caught
\* and logged: the task returns None in each case)
process_user_result(o) ==
    CASE o = "ok" -> "done_ok"
      [] o = "fail" -> "done_fail"
      [] o = "raise" -> "done_exc"

\* line 194: future.result(timeout=30) on the future the loop is at: the task
\* has finished, or the 30 s pass first
future_result(l) ==
    /\ pc[l] = "result"
    /\ LET a == user_list[l][fut[l]] IN
         \/ /\ TaskDone(task[l][a])
            /\ pc' = [pc EXCEPT ![l] =
                         after_result(IF task[l][a] = "raised" THEN "raised" ELSE "returned")]
         \/ /\ ~TaskDone(task[l][a])
            /\ pc' = [pc EXCEPT ![l] = after_result("timeout")]
    /\ fut' = [fut EXCEPT ![l] = @ + 1]
    /\ LoopFrame
    /\ UNCHANGED <<bot_running, REQUEST_DELAY, user_list, task,
                   current_delay, elapsed, stop_in_wait, stop_requested>>

\* ThreadPoolExecutor.__exit__ is shutdown(wait=True): the with block is left
\* only when every submitted task has finished
PoolIdle_NoWait(l) == TRUE

PoolIdle(l) == \A a \in Users : task[l][a] \in {"none"} \/ TaskDone(task[l][a])

executor_exit(l) ==
    /\ pc[l] = "shutdown"
    /\ PoolIdle(l)
    /\ pc' = [pc EXCEPT ![l] = "after_pool"]
    /\ LoopFrame
    /\ UNCHANGED <<bot_running, REQUEST_DELAY, user_list, fut, task,
                   current_delay, elapsed, stop_in_wait, stop_requested>>

\* lines 198-207: the stop test after the pool, then current_delay and elapsed
after_pool(l) ==
    /\ pc[l] = "after_pool"
    /\ IF ~bot_running
         THEN /\ pc' = [pc EXCEPT ![l] = "finally"]
              /\ UNCHANGED <<current_delay, elapsed>>
         ELSE /\ pc' = [pc EXCEPT ![l] = "sleep_check"]
              /\ current_delay' = [current_delay EXCEPT ![l] = REQUEST_DELAY]
              /\ elapsed' = [elapsed EXCEPT ![l] = 0]
    /\ task' = [task EXCEPT ![l] = [a \in Users |-> "none"]]
    /\ fut' = [fut EXCEPT ![l] = 0]
    /\ LoopFrame
    /\ UNCHANGED <<bot_running, REQUEST_DELAY, user_list, stop_in_wait, stop_requested>>

\* line 208: the test of the interruptible wait
keep_waiting_Inclusive(l) == elapsed[l] <= current_delay[l] /\ bot_running

keep_waiting(l) == elapsed[l] < current_delay[l] /\ bot_running

sleep_check(l) ==
    /\ pc[l] = "sleep_check"
    /\ IF keep_waiting(l)
         THEN /\ pc' = [pc EXCEPT ![l] = "sleeping"]
              /\ UNCHANGED <<current_delay, elapsed>>
         ELSE /\ pc' = [pc EXCEPT ![l] = "while"]
              /\ current_delay' = [current_delay EXCEPT ![l] = 0]
              /\ elapsed' = [elapsed EXCEPT ![l] = 0]
    /\ LoopFrame
    /\ UNCHANGED <<bot_running, REQUEST_DELAY, user_list, fut, task,
                   stop_in_wait, stop_requested>>

\* lines 209-210: one poll step, time.sleep(check_interval)
sleep_step(l) ==
    /\ pc[l] = "sleeping"
    /\ elapsed' = [elapsed EXCEPT ![l] = @ + CheckInterval]
    /\ pc' = [pc EXCEPT ![l] = "sleep_check"]
    /\ LoopFrame
    /\ UNCHANGED <<bot_running, REQUEST_DELAY, user_list, fut, task,
                   current_delay, stop_in_wait, stop_requested>>

\* lines 216-218: the finally block clears the shared flag
loop_finally(l) ==
    /\ pc[l] = "finally"
    /\ bot_running' = FALSE
    /\ pc' = [pc EXCEPT ![l] = "returned"]
    /\ stop_in_wait' = [stop_in_wait EXCEPT ![l] = FALSE]
    /\ LoopFrame
    /\ UNCHANGED <<REQUEST_DELAY, user_list, fut, task, current_delay, elapsed,
                   stop_requested>>

\* BotGUI.run_bot, lines 418-420: after run_monitoring_loop returned
run_bot_finally(l) ==
    /\ OrchOnly
    /\ pc[l] = "returned"
    /\ is_running' = FALSE
    /\ pc' = [pc EXCEPT ![l] = "dead"]
    /\ UNCHANGED <<bot_running, starts, settings_file, REQUEST_DELAY, users_file,
                   user_list, fut, task, current_delay,
                   elapsed, stop_in_wait, stop_requested, fetch_errors, users_py>>

\* the pool runs the queued tasks in submission order, max_workers at a time
Running(l) == {a \in Users : task[l][a] = "running"}
Position(l, a) == CHOOSE i \in 1..Len(user_list[l]) : user_list[l][i] = a
NextQueued(l, a) ==
    /\ task[l][a] = "queued"
    /\ \A b \in Users : task[l][b] = "queued" => Position(l, a) <= Position(l, b)

\* process_user only logs: it records nothing in error_tracking.json
TaskFrame == OrchOnly /\ UNCHANGED <<bot_running, is_running, starts, settings_file, REQUEST_DELAY,
                         users_file, pc, user_list, fut, current_delay, elapsed, stop_in_wait, stop_requested,
                         fetch_errors, users_py>>

\* process_user, lines 129-140: a pool worker takes the task; it returns at once
\* when the flag is clear
process_user_start(l, a) ==
    /\ NextQueued(l, a)
    /\ Cardinality(Running(l)) < max_workers(l)
    /\ task' = [task EXCEPT ![l][a] = IF bot_running THEN "running" ELSE "skipped"]
    /\ TaskFrame

\* process_user, lines 142-150: SessionManager.fetch_student_data returns True
\* or False or raises
FetchOutcomes == {"ok", "fail", "raise"}

process_user_fetch(l, a) ==
    /\ task[l][a] = "running"
    /\ \E o \in FetchOutcomes : task' = [task EXCEPT ![l][a] = process_user_result(o)]
    /\ TaskFrame

\* the variables of the other specifications, at rest
NoEntry == "none"
NoFile == [kind |-> "absent", data |-> [a \in Accounts |-> NoEntry]]

IdleStore ==
    /\ grades_file = NoFile
    /\ save_pc = [a \in Accounts |-> "idle"]
    /\ all_grades = [a \in Accounts |-> [b \in Accounts |-> NoEntry]]
    /\ courses = [a \in Accounts |-> NoEntry]
    /\ clobbered = [a \in Accounts |-> FALSE]
    /\ observed = "nothing"

IdleFetch ==
    /\ fpc = "idle"
    /\ result = "none"
    /\ now = 0
    /\ session_start_time = 0
    /\ SESSION_TIMEOUT = 0
    /\ AUTO_SURVEY = FALSE
    /\ html_content = "none"
    /\ opens = 0
    /\ first_login = "pending"
    /\ parsers = 0
    /\ snapshot = "none"
    /\ closes = 0
    /\ logins = 0
    /\ renewals = 0
    /\ renew_outcome = "none"
    /\ age_at_check = 0
    /\ page_gets = 0
    /\ first_page = "none"
    /\ survey_passes = 0
    /\ survey_gets = 0

EmptyChanges == [new |-> <<>>, updated |-> <<>>, removed |-> <<>>, no_change |-> <<>>]

IdleCompare ==
    /\ old_courses = <<>>
    /\ new_courses = <<>>
    /\ changes = EmptyChanges
    /\ cmp_pc = "idle"

\* a dictionary is a function on the keys it has; this is the empty one
EmptyDict == <<>>

IdleDetect ==
    /\ student_grades = EmptyDict
    /\ changes_file = EmptyDict
    /\ all_changes = EmptyDict
    /\ notifications = <<>>
    /\ previous_state = EmptyDict
    /\ det_pc = "off"
    /\ same_calls = 0

IdleExams ==
    /\ exams_old = <<>>
    /\ exams_new = <<>>
    /\ exam_changes = <<>>
    /\ exams_pc = "idle"

IdleParse ==
    /\ parse_pc = "off"
    /\ parsed_courses = <<>>
    /\ previous_data = <<>>
    /\ stored_courses = <<>>
    /\ token_set = FALSE
    /\ sent = 0
    /\ delivery = "none"
    /\ save_outcome = "none"

IdleFlag ==
    /\ auto_survey_file = FALSE
    /\ config_AUTO_SURVEY = FALSE
    /\ flag_pc = "off"

IdleAlerts ==
    /\ tracking_file = "none"
    /\ alert_clock = 0
    /\ alert_written = FALSE
    /\ alert_result = "none"

IdleOrch ==
    /\ fetch_errors = {}
    /\ bot_running = TRUE
    /\ is_running = FALSE
    /\ starts = 0
    /\ settings_file = 0
    /\ REQUEST_DELAY = 0
    /\ users_file = <<>>
    /\ pc = [l \in Loops |-> "unborn"]
    /\ user_list = [l \in Loops |-> <<>>]
    /\ fut = [l \in Loops |-> 0]
    /\ task = [l \in Loops |-> [a \in Users |-> "none"]]
    /\ current_delay = [l \in Loops |-> 0]
    /\ elapsed = [l \in Loops |-> 0]
    /\ stop_in_wait = [l \in Loops |-> FALSE]
    /\ stop_requested = [l \in Loops |-> "no"]
    /\ users_py = example_user_list

\* ------------------------------------------------- specification Spec
InitOrch ==
    /\ fetch_errors = {}
    /\ bot_running = TRUE
    /\ is_running = FALSE
    /\ starts = 0
    /\ settings_file \in Delays
    /\ REQUEST_DELAY = settings_file
    /\ users_file = [i \in 1..NumAccounts |-> i]
    /\ pc = [l \in Loops |-> "unborn"]
    /\ user_list = [l \in Loops |-> <<>>]
    /\ fut = [l \in Loops |-> 0]
    /\ task = [l \in Loops |-> [a \in Users |-> "none"]]
    /\ current_delay = [l \in Loops |-> 0]
    /\ elapsed = [l \in Loops |-> 0]
    /\ stop_in_wait = [l \in Loops |-> FALSE]
    /\ stop_requested = [l \in Loops |-> "no"]
    /\ users_py = example_user_list

IdleOthers == IdleDetect /\ IdleExams /\ IdleParse /\ IdleFlag /\ IdleAlerts

Init == InitOrch /\ IdleStore /\ IdleFetch /\ IdleCompare /\ IdleOthers

Next ==
    \/ start_bot
    \/ gui_stop_bot
    \/ \E d \in Delays : save_general_settings(d)
    \/ \E l \in Loops : run_init(l)
    \/ \E l \in Loops : while_check(l)
    \/ \E l \in Loops : reload_and_submit(l)
    \/ \E l \in Loops : for_check(l)
    \/ \E l \in Loops : future_result(l)
    \/ \E l \in Loops : executor_exit(l)
    \/ \E l \in Loops : after_pool(l)
    \/ \E l \in Loops : sleep_check(l)
    \/ \E l \in Loops : sleep_step(l)
    \/ \E l \in Loops : loop_finally(l)
    \/ \E l \in Loops : run_bot_finally(l)
    \/ \E l \in Loops, a \in Users : process_user_start(l, a)
    \/ \E l \in Loops, a \in Users : process_user_fetch(l, a)

Spec == Init /\ [][Next]_vars
\* ------------------------------------------------------------ claims, Spec
\* a bot thread that was started and has not ended yet
Alive(l) == pc[l] \notin {"unborn", "dead"}

\* the accounts of thread l whose future.result timed out and whose task is
\* still running: the for loop is past them and they are not done
TimedOutUnfinished(l) ==
    {a \in Users : task[l][a] = "running" /\ Position(l, a) < fut[l]}

\* C1: a failing process_user (login failure, retrieval failure, exception)
\* stops neither its siblings nor the loop: a running task always runs to its
\* own end, the pool is left only when every submitted task has finished, the
\* loop goes to its exit only when the stop flag is clear, and with the flag
\* set the while test starts the next iteration.
C1_FailureIsContained ==
    [][\A l \in Loops :
          /\ \A a \in Users :
                task[l][a] = "running" =>
                    task'[l][a] \in {"running", "done_ok", "done_fail", "done_exc"}
          /\ (pc[l] # "after_pool" /\ pc'[l] = "after_pool") =>
                \A i \in 1..Len(user_list[l]) : TaskDone(task'[l][user_list[l][i]])
          /\ (pc[l] # "finally" /\ pc'[l] = "finally") => ~bot_running
          /\ (pc[l] = "while" /\ pc'[l] # "while" /\ bot_running) => pc'[l] = "reload"
      ]_vars

\* C1 witness: an iteration's pool was left with one task that raised and a
\* sibling that succeeded, and the flag is still set
C1_Witness ==
    \E l \in Loops : \E a, b \in Users :
        /\ pc[l] = "after_pool"
        /\ bot_running
        /\ task[l][a] = "done_exc"
        /\ task[l][b] = "done_ok"

\* C2: once stop_bot was called while a loop was in its inter-iteration wait,
\* that loop enters no further sleep and starts no further iteration.
C2_StopInWaitExits ==
    [][\A l \in Loops :
          (stop_in_wait[l] /\ pc'[l] # pc[l]) => pc'[l] \notin {"sleeping", "reload"}
      ]_vars

\* C3: a task whose future.result timed out does not block the iteration: when
\* the for loop has been through every future and no stop was requested, the
\* orchestrator can leave the pool at once, whether or not the timed-out tasks
\* have finished.
C3_TimeoutDoesNotBlock ==
    \A l \in Loops :
        (/\ pc[l] = "shutdown"
         /\ bot_running
         /\ fut[l] > Len(user_list[l])
         /\ TimedOutUnfinished(l) # {}) => ENABLED executor_exit(l)

\* C5: no two worker tasks operate on the same account at the same time.
C5_OneTaskPerAccount ==
    \A a \in Accounts : Cardinality({l \in Loops : task[l][a] = "running"}) <= 1
\* =================================================================== html1.py
\* SpecStore: the workers of one iteration's pool, one per account, each in
\* HtmlParser._save_grades_to_file, and a reader of the same file
\* (GradeChangeDetector._load_grades, BotGUI.refresh_grades).

\* the snapshots an account may have: the one stored before, a new one
Snapshots == {"old", "new"}

JsonFile(m) == [kind |-> "json", data |-> m]
EmptyFile == [kind |-> "empty", data |-> [a \in Accounts |-> NoEntry]]
PartialFile == [kind |-> "partial", data |-> [a \in Accounts |-> NoEntry]]

\* the writers that hold the file open for writing
Writing == {a \in Accounts : save_pc[a] \in {"dump", "flushed"}}

\* what a write of the file by account a does to the other writers
Clobber(a) == [b \in Accounts |-> clobbered[b] \/ (b # a /\ b \in Writing)]

StoreFrame == StoreOnly /\ UNCHANGED <<courses, observed>>

\* _save_grades_to_file, lines 228-237: load the whole file (json.load raises
\* on an empty or partly written file, and the except clause at line 244 ends
\* the save), then set this account's entry in the local dictionary
save_load(a) ==
    /\ save_pc[a] = "start"
    /\ IF grades_file.kind \in {"empty", "partial"}
         THEN /\ save_pc' = [save_pc EXCEPT ![a] = "failed"]
              /\ UNCHANGED all_grades
         ELSE /\ save_pc' = [save_pc EXCEPT ![a] = "open"]
              /\ all_grades' = [all_grades EXCEPT ![a] =
                                   [grades_file.data EXCEPT ![a] = courses[a]]]
    /\ UNCHANGED <<grades_file, clobbered>>
    /\ StoreFrame

\* line 240: open(GRADES_FILE, 'w') truncates the file
save_open(a) ==
    /\ save_pc[a] = "open"
    /\ save_pc' = [save_pc EXCEPT ![a] = "dump"]
    /\ grades_file' = EmptyFile
    /\ clobbered' = [Clobber(a) EXCEPT ![a] = FALSE]
    /\ UNCHANGED all_grades
    /\ StoreFrame

\* line 241: json.dump writes in pieces; the buffer may reach the file before
\* the close
save_flush(a) ==
    /\ save_pc[a] = "dump"
    /\ save_pc' = [save_pc EXCEPT ![a] = "flushed"]
    /\ grades_file' = PartialFile
    /\ clobbered' = Clobber(a)
    /\ UNCHANGED all_grades
    /\ StoreFrame

\* lines 240-241, leaving the with block: the rest is written and the file
\* closed. Alone at the file, the writer leaves its own dictionary there; when
\* another writer truncated or wrote the file meanwhile, the bytes of the two
\* mix and the result is this writer's JSON or no JSON at all
save_close(a) ==
    /\ save_pc[a] \in {"dump", "flushed"}
    /\ save_pc' = [save_pc EXCEPT ![a] = "saved"]
    /\ \/ grades_file' = JsonFile(all_grades[a])
       \/ /\ clobbered[a]
          /\ grades_file' = PartialFile
    /\ clobbered' = [Clobber(a) EXCEPT ![a] = FALSE]
    /\ UNCHANGED all_grades
    /\ StoreFrame

\* grade_change_detector.py _load_grades, gui.py refresh_grades: exists, open,
\* json.load; the exception of a file that is no JSON is caught and logged
reader_load ==
    /\ observed' = CASE grades_file.kind = "absent" -> "missing"
                     [] grades_file.kind = "json" -> "complete"
                     [] OTHER -> "broken"
    /\ observed' # observed
    /\ StoreOnly
    /\ UNCHANGED <<grades_file, save_pc, all_grades, courses, clobbered>>

InitStore ==
    /\ IdleOrch
    /\ IdleFetch
    /\ IdleCompare
    /\ IdleOthers
    /\ grades_file \in {NoFile, JsonFile([a \in Accounts |-> "old"])}
    /\ save_pc = [a \in Accounts |-> "start"]
    /\ all_grades = [a \in Accounts |-> [b \in Accounts |-> NoEntry]]
    /\ courses \in [Accounts -> Snapshots]
    /\ clobbered = [a \in Accounts |-> FALSE]
    /\ observed = "nothing"

NextStore ==
    \/ \E a \in Accounts : save_load(a)
    \/ \E a \in Accounts : save_open(a)
    \/ \E a \in Accounts : save_flush(a)
    \/ \E a \in Accounts : save_close(a)
    \/ reader_load

SpecStore == InitStore /\ [][NextStore]_vars

\* ------------------------------------------------------- claims, SpecStore
SavesOver == \A a \in Accounts : save_pc[a] \in {"saved", "failed"}

\* C4: snapshot writes of different accounts never contend: when every worker
\* of the iteration has finished its save, the store holds for each account
\* the snapshot its worker fetched.
C4_NoLostSave ==
    SavesOver =>
        /\ grades_file.kind = "json"
        /\ \A a \in Accounts : grades_file.data[a] = courses[a]

\* C6: writes of the store are atomic: no load of the file, by a reader or by
\* another worker's save, ever finds it empty or partly written.
C6_AtomicWrites ==
    /\ observed # "broken"
    /\ \A a \in Accounts : save_pc[a] # "failed"
\* ========================================================= main.py, login.py
\* SpecFetch: one call of SessionManager.fetch_student_data, with the clock.

\* how OMULogin.login ends: the session, None (no CSRF token, a
\* RequestException), or an exception it does not catch
LoginOutcomes == {"session", "none", "raise"}
\* what session.get(page_url) yields in get_page_content: a RequestException
\* (also raise_for_status), an empty text, a page with the survey marker, the
\* grades page
PageOutcomes == {"error", "empty", "survey", "grades"}
\* the ways through check_and_complete_survey
SurveyBranches == {"no_url", "no_button", "no_link", "no_form", "submitted", "request_error"}
\* how HtmlParser(html_content, username) ends
ParseOutcomes == {"ok", "raise"}

FetchHistory == <<opens, first_login, parsers, snapshot, closes, logins, renewals, renew_outcome, age_at_check,
                  page_gets, first_page, survey_passes, survey_gets>>

\* time passes while the call runs
clock_tick ==
    /\ fpc \notin {"call", "done"}
    /\ now < MaxTime
    /\ now' = now + 1
    /\ FetchOnly
    /\ UNCHANGED <<fpc, result, session_start_time, SESSION_TIMEOUT, AUTO_SURVEY,
                   html_content, FetchHistory>>

\* _get_login_handler, line 59, and fetch_student_data, lines 97-98: the
\* handler is created and the with block entered
fetch_enter ==
    /\ fpc = "call"
    /\ opens' = opens + 1
    /\ fpc' = "login"
    /\ FetchOnly
    /\ UNCHANGED <<first_login, parsers, snapshot, result, now, session_start_time, SESSION_TIMEOUT, AUTO_SURVEY,
                   html_content, closes, logins, renewals, renew_outcome,
                   age_at_check, page_gets, first_page, survey_passes, survey_gets>>

\* fetch_student_data, lines 101-104: where the call goes on after the login
\* ended with o: "if not session: return False", and an exception leaves the
\* with block
after_login_Unchecked(o) == IF o = "raise" THEN "exit" ELSE "renew"

after_login(o) == IF o = "session" THEN "renew" ELSE "exit"

\* fetch_student_data, lines 101-107: the first login
fetch_login ==
    /\ fpc = "login"
    /\ logins' = logins + 1
    /\ \E o \in LoginOutcomes :
         /\ first_login' = o
         /\ fpc' = after_login(o)
         /\ IF after_login(o) = "renew"
              THEN /\ session_start_time' = now
                   /\ UNCHANGED result
              ELSE /\ result' = (IF o = "raise" THEN "raise" ELSE "false")
                   /\ UNCHANGED session_start_time
    /\ FetchOnly
    /\ UNCHANGED <<now, SESSION_TIMEOUT, AUTO_SURVEY, html_content, opens, parsers, snapshot, closes,
                   renewals, renew_outcome, age_at_check, page_gets, first_page,
                   survey_passes, survey_gets>>

\* _is_session_expired, line 71
_is_session_expired_Strict == now - session_start_time > SESSION_TIMEOUT

_is_session_expired == now - session_start_time >= SESSION_TIMEOUT

\* fetch_student_data, lines 110-111, with _renew_session, lines 79-89: an
\* expired session (login_handler is set, line 98) is renewed by one login
fetch_renew ==
    /\ fpc = "renew"
    /\ age_at_check' = now - session_start_time
    /\ IF _is_session_expired
         THEN /\ logins' = logins + 1
              /\ renewals' = renewals + 1
              /\ \E o \in LoginOutcomes :
                   CASE o = "session" -> /\ session_start_time' = now
                                         /\ renew_outcome' = "renewed"
                                         /\ fpc' = "get"
                                         /\ UNCHANGED result
                     [] o = "none"    -> /\ renew_outcome' = "failed"
                                         /\ result' = "false"
                                         /\ fpc' = "exit"
                                         /\ UNCHANGED session_start_time
                     [] o = "raise"   -> /\ renew_outcome' = "raised"
                                         /\ result' = "raise"
                                         /\ fpc' = "exit"
                                         /\ UNCHANGED session_start_time
         ELSE /\ renew_outcome' = "fresh"
              /\ fpc' = "get"
              /\ UNCHANGED <<logins, renewals, result, session_start_time>>
    /\ FetchOnly
    /\ UNCHANGED <<now, SESSION_TIMEOUT, AUTO_SURVEY, html_content, opens, first_login, parsers, snapshot, closes,
                   page_gets, first_page, survey_passes, survey_gets>>

\* get_page_content, line 202: the survey is resolved only when AUTO_SURVEY is set
auto_resolve_Always == TRUE

auto_resolve == AUTO_SURVEY

\* get_page_content, lines 194-211 and 217-223: the first retrieval
get_page_content ==
    /\ fpc = "get"
    /\ page_gets' = page_gets + 1
    /\ \E o \in PageOutcomes :
         /\ first_page' = o
         /\ CASE o \in {"error", "empty"} -> /\ result' = "false"
                                             /\ fpc' = "exit"
                                             /\ UNCHANGED html_content
              [] o = "survey" -> /\ html_content' = o
                                 /\ fpc' = IF auto_resolve THEN "survey" ELSE "parse"
                                 /\ UNCHANGED result
              [] o = "grades" -> /\ html_content' = o
                                 /\ fpc' = "parse"
                                 /\ UNCHANGED result
    /\ FetchOnly
    /\ UNCHANGED <<now, session_start_time, SESSION_TIMEOUT, AUTO_SURVEY, opens, first_login, parsers, snapshot,
                   closes, logins, renewals, renew_outcome, age_at_check, survey_passes,
                   survey_gets>>

\* check_and_complete_survey, lines 108-182: True on every way through it,
\* the RequestException of line 180 included
check_and_complete_survey(b) == b \in SurveyBranches

\* get_page_content, line 204: one resolution pass. It requests page_url itself
\* (line 114) to look for the survey button, unless the URL is empty; that
\* request is part of the pass and no retrieval of get_page_content
survey_pass ==
    /\ fpc = "survey"
    /\ survey_passes' = survey_passes + 1
    /\ \E b \in SurveyBranches :
         /\ survey_gets' = IF b = "no_url" THEN survey_gets ELSE survey_gets + 1
         /\ fpc' = IF check_and_complete_survey(b) THEN "reget" ELSE "parse"
    /\ FetchOnly
    /\ UNCHANGED <<result, now, session_start_time, SESSION_TIMEOUT, AUTO_SURVEY,
                   html_content, opens, first_login, parsers, snapshot, closes, logins, renewals, renew_outcome,
                   age_at_check, page_gets, first_page>>

\* get_page_content, lines 206-207: the page is retrieved again; whatever text
\* comes back is parsed, a RequestException ends the call with False
get_page_again ==
    /\ fpc = "reget"
    /\ page_gets' = page_gets + 1
    /\ \E o \in PageOutcomes :
         IF o = "error"
           THEN /\ result' = "false"
                /\ fpc' = "exit"
                /\ UNCHANGED html_content
           ELSE /\ html_content' = o
                /\ fpc' = "parse"
                /\ UNCHANGED result
    /\ FetchOnly
    /\ UNCHANGED <<now, session_start_time, SESSION_TIMEOUT, AUTO_SURVEY, opens, first_login, parsers, snapshot,
                   closes, logins, renewals, renew_outcome, age_at_check,
                   first_page, survey_passes, survey_gets>>

\* HtmlParser._parse_courses, html1.py lines 44-100: self.courses is the
\* courses of the table of the grades page ("page"); it stays [] ("empty")
\* for an empty text (line 46) and for a page without the table, as the
\* survey page is (lines 57-66)
_parse_courses(html) == IF html = "grades" THEN "page" ELSE "empty"

\* get_page_content, lines 214-216: HtmlParser runs on html_content: it
\* parses, notifies and saves self.courses as the account's entry (html1.py,
\* lines 37-42, 220, 234-241; a failure of the save is caught and logged);
\* the call returns True unless the parser raises
parse_page ==
    /\ fpc = "parse"
    /\ parsers' = parsers + 1
    /\ \E o \in ParseOutcomes :
         IF o = "ok"
           THEN /\ result' = "true"
                /\ \E written \in BOOLEAN :
                     snapshot' = IF written THEN _parse_courses(html_content) ELSE snapshot
           ELSE /\ result' = "raise"
                /\ UNCHANGED snapshot
    /\ fpc' = "exit"
    /\ FetchOnly
    /\ UNCHANGED <<now, session_start_time, SESSION_TIMEOUT, AUTO_SURVEY,
                   html_content, opens, first_login, closes, logins, renewals, renew_outcome,
                   age_at_check, page_gets, first_page, survey_passes, survey_gets>>

\* _get_login_handler, lines 60-63: the number of handler.close calls made
\* when the with block is left with result r: the finally clause runs always
handler_closes_NoFinally(r) == IF r = "raise" THEN 0 ELSE 1

handler_closes(r) == 1

\* fetch_student_data leaves the with block (a return or an exception)
fetch_exit ==
    /\ fpc = "exit"
    /\ closes' = closes + handler_closes(result)
    /\ fpc' = "done"
    /\ FetchOnly
    /\ UNCHANGED <<result, now, session_start_time, SESSION_TIMEOUT, AUTO_SURVEY,
                   html_content, opens, first_login, parsers, snapshot, logins, renewals, renew_outcome,
                   age_at_check, page_gets, first_page, survey_passes, survey_gets>>

\* the session timeouts of the settings, in the clock's unit
Timeouts == 0..MaxTime

InitFetch ==
    /\ IdleOrch
    /\ IdleStore
    /\ IdleCompare
    /\ IdleOthers
    /\ fpc = "call"
    /\ result = "none"
    /\ now = 0
    /\ session_start_time = 0
    /\ SESSION_TIMEOUT \in Timeouts
    /\ AUTO_SURVEY \in BOOLEAN
    /\ html_content = "none"
    /\ opens = 0
    /\ first_login = "pending"
    /\ parsers = 0
    /\ snapshot = "stored"
    /\ closes = 0
    /\ logins = 0
    /\ renewals = 0
    /\ renew_outcome = "none"
    /\ age_at_check = 0
    /\ page_gets = 0
    /\ first_page = "none"
    /\ survey_passes = 0
    /\ survey_gets = 0

NextFetch ==
    \/ clock_tick
    \/ fetch_enter
    \/ fetch_login
    \/ fetch_renew
    \/ get_page_content
    \/ survey_pass
    \/ get_page_again
    \/ parse_page
    \/ fetch_exit

SpecFetch == InitFetch /\ [][NextFetch]_vars

\* ------------------------------------------------------- claims, SpecFetch
\* C7: every call of fetch_student_data closes the handler it created exactly
\* once, on every way out: nothing is closed before the with block is left,
\* and when the call is over one handler was created and closed once.
C7_HandlerClosedOnce ==
    /\ fpc # "done" => closes = 0
    /\ fpc = "done" => (opens = 1 /\ closes = 1)

\* C7 witness: a call that retrieved the page and ended in an exception
C7_Witness == fpc = "done" /\ result = "raise" /\ page_gets > 0 /\ closes = 1

\* C8: when the session age has reached SESSION_TIMEOUT at the expiry check,
\* exactly one renewal login is made before any retrieval; a failed renewal
\* ends the call with failure and without a retrieval; a session that has not
\* expired is not renewed.
C8_RenewalOnExpiry ==
    /\ renewals <= 1
    /\ renew_outcome = "none" => (renewals = 0 /\ page_gets = 0)
    /\ renew_outcome # "none" =>
          /\ age_at_check >= SESSION_TIMEOUT => renewals = 1
          /\ age_at_check < SESSION_TIMEOUT => renewals = 0
    /\ renew_outcome = "failed" =>
          /\ page_gets = 0
          /\ result = "false"
    /\ renew_outcome = "raised" => page_gets = 0
    /\ (page_gets > 0 /\ age_at_check >= SESSION_TIMEOUT) => renew_outcome = "renewed"

\* C8 witness: the session had reached its timeout exactly, was renewed once,
\* and the page was then retrieved
C8_Witness ==
    /\ renew_outcome = "renewed"
    /\ SESSION_TIMEOUT > 0
    /\ age_at_check = SESSION_TIMEOUT
    /\ renewals = 1
    /\ page_gets = 1

C35_FailedLoginTouchesNothing ==
    /\ [](first_login \in {"none", "raise"} =>
            /\ fpc \in {"exit", "done"}
            /\ result = (IF first_login = "none" THEN "false" ELSE "raise")
            /\ logins = 1
            /\ renewals = 0
            /\ renew_outcome = "none"
            /\ page_gets = 0
            /\ survey_passes = 0
            /\ survey_gets = 0
            /\ parsers = 0
            /\ html_content = "none"
            /\ snapshot = "stored")
    /\ [][(first_login \in {"none", "raise"}) => (fetch_exit \/ clock_tick)]_vars

\* C35 witness: the login returned None and the call is over: it returned
\* False, the handler is closed, no page was asked for
C35_Witness ==
    /\ first_login = "none"
    /\ fpc = "done"
    /\ result = "false"
    /\ closes = 1
    /\ page_gets = 0

\* C36: a cycle whose page, as it is parsed, is the survey page (the survey
\* was not resolved) leaves the account's stored snapshot as it was, never an
\* entry with an empty course list, and does not return success.
C36_SurveyPageKeepsSnapshot ==
    (fpc \in {"exit", "done"} /\ html_content = "survey") =>
        /\ snapshot = "stored"
        /\ result # "true"

\* ==================================================== grade_change_detector.py
\* SpecCompare: _compare_courses on course lists of bounded length. A string
\* is the sequence of its characters; a course is a record whose name may be
\* missing (NoEntry) and whose exams may be missing (None).

Range(f) == {f[i] : i \in DOMAIN f}

\* str.startswith
startswith(str, prefix) ==
    /\ Len(prefix) <= Len(str)
    /\ SubSeq(str, 1, Len(prefix)) = prefix

\* "::" in str, and where the first one begins
has_sep(str) == \E i \in 1..(Len(str) - 1) : str[i] = ":" /\ str[i + 1] = ":"
first_sep(str) ==
    CHOOSE i \in 1..(Len(str) - 1) :
        /\ str[i] = ":" /\ str[i + 1] = ":"
        /\ \A j \in 1..(i - 1) : ~(str[j] = ":" /\ str[j + 1] = ":")

\* str.split("::")[0] and str.split("::")[1], for a str that holds "::"
split_0(str) == SubSeq(str, 1, first_sep(str) - 1)
split_1(str) ==
    LET rest == SubSeq(str, first_sep(str) + 2, Len(str))
    IN  IF has_sep(rest) THEN split_0(rest) ELSE rest

\* str.strip(), of blanks
RECURSIVE lstrip(_)
lstrip(str) == IF str # <<>> /\ Head(str) = " " THEN lstrip(Tail(str)) ELSE str
RECURSIVE rstrip(_)
rstrip(str) ==
    IF str # <<>> /\ str[Len(str)] = " " THEN rstrip(SubSeq(str, 1, Len(str) - 1)) ELSE str
strip(str) == rstrip(lstrip(str))

\* the text 'Yok' of line 156
Yok == <<"Y", "o", "k">>

\* Python's None where a string or a list is expected
None == <<"None">>

\* _compare_exams, line 154: next((e for e in old_exams if e.startswith(exam_name)), None)
first_startswith(old_exams, exam_name) ==
    LET hits == {i \in 1..Len(old_exams) : startswith(old_exams[i], exam_name)}
    IN  IF hits = {} THEN None
        ELSE old_exams[CHOOSE i \in hits : \A j \in hits : i <= j]

\* _compare_exams, lines 148-156, with the test of line 151 made first
exam_lines_SkipEmpty(old_exams, new_exam) ==
    IF new_exam = <<>> THEN <<>>
    ELSE IF new_exam \notin Range(old_exams)
      THEN <<[kind |-> "Yeni", exam |-> new_exam]>>
      ELSE <<>>

\* _compare_exams, lines 148-156: the diff lines one new_exam gives, a
\* "Yeni: ..." line or a "Guncellendi: name (old -> new)" line or none
exam_lines(old_exams, new_exam) ==
    IF new_exam \notin Range(old_exams)
      THEN <<[kind |-> "Yeni", exam |-> new_exam]>>
      ELSE IF new_exam = <<>> THEN <<>>
      ELSE LET exam_name == IF has_sep(new_exam) THEN strip(split_0(new_exam)) ELSE new_exam
               old_exam == first_startswith(old_exams, exam_name)
           IN  IF old_exam # None /\ old_exam # <<>> /\ old_exam # new_exam
                 THEN <<[kind |-> "Guncellendi",
                         exam |-> exam_name,
                         old |-> IF has_sep(old_exam) THEN strip(split_1(old_exam)) ELSE Yok,
                         new |-> IF has_sep(new_exam) THEN strip(split_1(new_exam)) ELSE Yok]>>
                 ELSE <<>>

\* _compare_exams, lines 145-158
RECURSIVE _compare_exams(_, _)
_compare_exams(old_exams, new_exams) ==
    IF new_exams = <<>> THEN <<>>
    ELSE exam_lines(old_exams, Head(new_exams)) \o _compare_exams(old_exams, Tail(new_exams))

\* course.get("name", "") and course.get("exams", [])
get_name(course) == IF course.name = NoEntry THEN "" ELSE course.name
get_exams(course) == IF course.exams = None THEN <<>> ELSE course.exams

\* _compare_courses, lines 103-104: {course.get("name", ""): course for course
\* in courses}: the keys in the order of their first occurrence, and for each
\* key the last course that has it
RECURSIVE dict_keys(_)
dict_keys(course_list) ==
    IF course_list = <<>> THEN <<>>
    ELSE LET front == dict_keys(SubSeq(course_list, 1, Len(course_list) - 1))
             key == get_name(course_list[Len(course_list)])
         IN  IF key \in Range(front) THEN front ELSE Append(front, key)

dict_value(course_list, key) ==
    LET at == {i \in 1..Len(course_list) : get_name(course_list[i]) = key}
    IN  course_list[CHOOSE i \in at : \A j \in at : j <= i]

\* line 130: a course of old_dict is removed when its name is no key of new_dict
is_removed_Always(course_name, new_keys) == TRUE

is_removed(course_name, new_keys) == course_name \notin Range(new_keys)

\* _compare_courses, lines 95-133
_compare_courses(old_list, new_list) ==
    LET old_keys == dict_keys(old_list)
        new_keys == dict_keys(new_list)
        old_exams(k) == get_exams(dict_value(old_list, k))
        new_exams(k) == get_exams(dict_value(new_list, k))
        IsNew(k) == k \notin Range(old_keys)
        IsUpdated(k) == k \in Range(old_keys) /\ old_exams(k) # new_exams(k)
        IsSame(k) == k \in Range(old_keys) /\ old_exams(k) = new_exams(k)
        IsRemoved(k) == is_removed(k, new_keys)
        new_names == SelectSeq(new_keys, IsNew)
        updated_names == SelectSeq(new_keys, IsUpdated)
    IN  [new |-> [i \in 1..Len(new_names) |->
                    [name |-> new_names[i], exams |-> new_exams(new_names[i])]],
         updated |-> [i \in 1..Len(updated_names) |->
                    [name |-> updated_names[i],
                     old_exams |-> old_exams(updated_names[i]),
                     new_exams |-> new_exams(updated_names[i]),
                     changes |-> _compare_exams(old_exams(updated_names[i]),
                                                new_exams(updated_names[i]))]],
         removed |-> SelectSeq(old_keys, IsRemoved),
         no_change |-> SelectSeq(new_keys, IsSame)]

\* the inputs: exam strings "Q:1" and "Q:10", exam lists, courses
ExamQ1 == <<"Q", ":", "1">>
ExamQ10 == <<"Q", ":", "1", "0">>
ExamLists == {<<>>, <<ExamQ1>>}
CourseNames == {"A", "B", NoEntry}
Courses == [name : CourseNames, exams : ExamLists]
CourseLists == UNION {[1..n -> Courses] : n \in 0..MaxCourses}

compare_courses ==
    /\ cmp_pc = "call"
    /\ changes' = _compare_courses(old_courses, new_courses)
    /\ cmp_pc' = "done"
    /\ CompareOnly
    /\ UNCHANGED <<old_courses, new_courses>>

InitCompare ==
    /\ IdleOrch
    /\ IdleStore
    /\ IdleFetch
    /\ IdleOthers
    /\ old_courses \in CourseLists
    /\ new_courses \in CourseLists
    /\ changes = EmptyChanges
    /\ cmp_pc = "call"

NextCompare == compare_courses

SpecCompare == InitCompare /\ [][NextCompare]_vars

\* ----------------------------------------------------- claims, SpecCompare
\* the names of the courses of a list, and the names a class of changes holds
NamesOf(course_list) == {get_name(c) : c \in Range(course_list)}
Count(name_seq, n) == Cardinality({i \in 1..Len(name_seq) : name_seq[i] = n})
ClassNames(ch) ==
    [new |-> [i \in 1..Len(ch.new) |-> ch.new[i].name],
     updated |-> [i \in 1..Len(ch.updated) |-> ch.updated[i].name],
     removed |-> ch.removed,
     no_change |-> ch.no_change]
Placements(ch, n) ==
    Count(ClassNames(ch).new, n) + Count(ClassNames(ch).updated, n)
        + Count(ClassNames(ch).removed, n) + Count(ClassNames(ch).no_change, n)

\* C10: _compare_courses places every course name of old or new in exactly
\* one of new, updated, removed, no_change, once, and no other name anywhere.
C10_ExactlyOneClass ==
    cmp_pc = "done" =>
        LET names == NamesOf(old_courses) \cup NamesOf(new_courses)
            placed == Range(ClassNames(changes).new) \cup Range(ClassNames(changes).updated)
                        \cup Range(ClassNames(changes).removed)
                        \cup Range(ClassNames(changes).no_change)
        IN  /\ \A n \in names : Placements(changes, n) = 1
            /\ placed \subseteq names

\* C10 witness: a comparison with a new, an updated and a removed course
C10_Witness ==
    /\ cmp_pc = "done"
    /\ Len(changes.new) = 1
    /\ Len(changes.updated) = 1
    /\ Len(changes.removed) = 1
\* ==================================== grade_change_detector.py: detect_changes
\* SpecDetect: the detector is called again and again on student_grades.json,
\* which the workers' saves change between the calls. A dictionary keyed by
\* student id is a function on the accounts it has; an entry is the record of
\* its "courses" (the "last_updated" text plays no part in the comparison).

\* the course lists a snapshot may hold: the courses A and B, A with or
\* without its exam entry
CourseA0 == [name |-> "A", exams |-> <<>>]
CourseA1 == [name |-> "A", exams |-> <<ExamQ1>>]
CourseB1 == [name |-> "B", exams |-> <<ExamQ1>>]
SnapshotLists == {<<>>, <<CourseA0>>, <<CourseA1>>, <<CourseB1>>, <<CourseA1, CourseB1>>}
Entries == [courses : SnapshotLists]
Dicts == UNION {[S -> Entries] : S \in SUBSET Accounts}

\* line 181-182: previous_state.get(student_id, {}).get("courses", [])
previous_courses(state, student_id) ==
    IF student_id \in DOMAIN state THEN state[student_id].courses ELSE <<>>

\* line 186: the test that lets a student into all_changes
courses_differ_NeedsPrevious(previous, current) == previous # <<>> /\ previous # current

courses_differ(previous, current) == previous # current

\* lines 174-192: all_changes, given the previous state and the current grades
compare_all(state, current_grades) ==
    LET changed == {student_id \in DOMAIN current_grades :
                       courses_differ(previous_courses(state, student_id),
                                      current_grades[student_id].courses)}
    IN  [student_id \in changed |->
            [changes |-> _compare_courses(previous_courses(state, student_id),
                                          current_grades[student_id].courses),
             courses |-> current_grades[student_id].courses]]

\* line 195: the test before _save_changes
should_save_OnChange(changed, current_grades) == DOMAIN changed # {}

should_save(changed, current_grades) == DOMAIN changed # {} \/ DOMAIN current_grades # {}

\* line 196: what is handed to _save_changes and written to grade_changes.json
saved_state_Changes(changed, current_grades) == changed

saved_state(changed, current_grades) == current_grades

\* get_notifications, lines 213-221, 249-257: the events of the new and of the
\* removed courses of one student
Event(type, student_id, course_name) ==
    [type |-> type, student_id |-> student_id, course_name |-> course_name]

new_events(student_id, detail) ==
    [i \in 1..Len(detail.new) |-> Event("new_course", student_id, detail.new[i].name)]

removed_events(student_id, detail) ==
    [i \in 1..Len(detail.removed) |-> Event("course_removed", student_id, detail.removed[i])]

\* lines 226-246: the events of one updated course: one per diff line, or the
\* generic one when the course has no diff line
course_update_events_NoGeneric(student_id, course) ==
    [i \in 1..Len(course.changes) |-> Event("grade_update", student_id, course.name)]

course_update_events(student_id, course) ==
    IF course.changes # <<>>
      THEN [i \in 1..Len(course.changes) |-> Event("grade_update", student_id, course.name)]
      ELSE <<Event("grade_update", student_id, course.name)>>

RECURSIVE updated_events(_, _)
updated_events(student_id, updated) ==
    IF updated = <<>> THEN <<>>
    ELSE course_update_events(student_id, Head(updated))
             \o updated_events(student_id, Tail(updated))

\* lines 209-259: the events of every student of changes, student by student
RECURSIVE events_from(_, _)
events_from(changed, student_id) ==
    IF student_id > NumAccounts THEN <<>>
    ELSE (IF student_id \in DOMAIN changed
            THEN new_events(student_id, changed[student_id].changes)
                   \o updated_events(student_id, changed[student_id].changes.updated)
                   \o removed_events(student_id, changed[student_id].changes)
            ELSE <<>>)
         \o events_from(changed, student_id + 1)

DetectFrame == DetectOnly

\* detect_changes, lines 166-198, called by get_notifications at line 206 (b)
\* or on its own: an empty or unreadable student_grades.json ends the call at
\* line 169; otherwise the students are compared and the current grades saved
detect_call(by_notifications) ==
    /\ det_pc = "idle"
    /\ det_pc' = IF by_notifications THEN "notified" ELSE "called"
    /\ same_calls' = Min(2, same_calls + 1)
    /\ IF DOMAIN student_grades = {}
         THEN /\ all_changes' = EmptyDict
              /\ UNCHANGED <<changes_file, previous_state>>
         ELSE /\ previous_state' = changes_file
              /\ all_changes' = compare_all(changes_file, student_grades)
              /\ changes_file' =
                    IF should_save(compare_all(changes_file, student_grades), student_grades)
                      THEN saved_state(compare_all(changes_file, student_grades), student_grades)
                      ELSE changes_file
    /\ notifications' = IF by_notifications THEN events_from(all_changes', 1) ELSE <<>>
    /\ UNCHANGED student_grades
    /\ DetectFrame

detect_changes == detect_call(FALSE)

get_notifications == detect_call(TRUE)

\* the caller has taken the returned value
detect_return ==
    /\ det_pc \in {"called", "notified"}
    /\ det_pc' = "idle"
    /\ all_changes' = EmptyDict
    /\ notifications' = <<>>
    /\ previous_state' = EmptyDict
    /\ UNCHANGED <<student_grades, changes_file, same_calls>>
    /\ DetectFrame

\* html1.py, lines 234-241: a worker's save sets one student's entry in
\* student_grades.json (the detector reads the file once, at line 166)
worker_save(student_id, course_list) ==
    /\ det_pc = "idle"
    /\ previous_courses(student_grades, student_id) # course_list
           \/ student_id \notin DOMAIN student_grades
    /\ student_grades' =
          [a \in DOMAIN student_grades \cup {student_id} |->
              IF a = student_id THEN [courses |-> course_list] ELSE student_grades[a]]
    /\ same_calls' = 0
    /\ UNCHANGED <<changes_file, all_changes, notifications, previous_state, det_pc>>
    /\ DetectFrame

InitDetect ==
    /\ IdleFlag
    /\ IdleAlerts
    /\ IdleOrch
    /\ IdleStore
    /\ IdleFetch
    /\ IdleCompare
    /\ IdleExams
    /\ IdleParse
    /\ student_grades \in Dicts
    /\ changes_file = EmptyDict
    /\ all_changes = EmptyDict
    /\ notifications = <<>>
    /\ previous_state = EmptyDict
    /\ det_pc = "idle"
    /\ same_calls = 0

NextDetect ==
    \/ detect_changes
    \/ get_notifications
    \/ detect_return
    \/ \E a \in Accounts, c \in SnapshotLists : worker_save(a, c)

SpecDetect == InitDetect /\ [][NextDetect]_vars

\* ------------------------------------------------------ claims, SpecDetect
\* a detect_changes call is over and its result not yet taken
Detected == det_pc \in {"called", "notified"}

C12_FirstSnapshotAllNew ==
    (Detected /\ DOMAIN student_grades # {}) =>
        \A a \in DOMAIN student_grades \ DOMAIN previous_state :
            LET current == student_grades[a].courses IN
            IF current = <<>>
              THEN a \notin DOMAIN all_changes
              ELSE /\ a \in DOMAIN all_changes
                   /\ all_changes[a].changes.updated = <<>>
                   /\ all_changes[a].changes.removed = <<>>
                   /\ all_changes[a].changes.no_change = <<>>
                   /\ Range(ClassNames(all_changes[a].changes).new) = NamesOf(current)
                   /\ Len(all_changes[a].changes.new) = Cardinality(NamesOf(current))

\* C12 witness: a state was persisted before, but not for this account, whose
\* first snapshot has two courses
C12_Witness ==
    /\ Detected
    /\ DOMAIN previous_state # {}
    /\ \E a \in DOMAIN student_grades \ DOMAIN previous_state :
          /\ a \in DOMAIN all_changes
          /\ Len(all_changes[a].changes.new) = 2

EventCount(type, student_id) ==
    Cardinality({i \in 1..Len(notifications) :
                    notifications[i].type = type /\ notifications[i].student_id = student_id})
RECURSIVE UpdateLines(_)
UpdateLines(updated) ==
    IF updated = <<>> THEN 0
    ELSE (IF Head(updated).changes = <<>> THEN 1 ELSE Len(Head(updated).changes))
         + UpdateLines(Tail(updated))
RECURSIVE ExpectedEvents(_)
ExpectedEvents(student_id) ==
    IF student_id > NumAccounts THEN 0
    ELSE (IF student_id \in DOMAIN all_changes
            THEN Len(all_changes[student_id].changes.new)
                   + UpdateLines(all_changes[student_id].changes.updated)
                   + Len(all_changes[student_id].changes.removed)
            ELSE 0)
         + ExpectedEvents(student_id + 1)

\* C16: get_notifications emits one new_course event per new course, one
\* grade_update event per diff line of an updated course (one for an updated
\* course without diff line), one course_removed event per removed course and
\* nothing else; previous {A: [Q:1]} and new {A: [Q:1], B: [Q:1]} give exactly
\* one event, of type new_course, for B.
C16_EventsMatchChangeSet ==
    det_pc = "notified" =>
        /\ Len(notifications) = ExpectedEvents(1)
        /\ \A a \in DOMAIN all_changes :
              /\ EventCount("new_course", a) = Len(all_changes[a].changes.new)
              /\ EventCount("grade_update", a) = UpdateLines(all_changes[a].changes.updated)
              /\ EventCount("course_removed", a) = Len(all_changes[a].changes.removed)
        /\ \A a \in DOMAIN student_grades :
              (/\ previous_courses(previous_state, a) = <<CourseA1>>
               /\ student_grades[a].courses = <<CourseA1, CourseB1>>
               /\ DOMAIN all_changes = {a})
                  => notifications = <<Event("new_course", a, "B")>>

\* C16 witness: the example has happened: course B is new beside the
\* unchanged course A, and the one event is B's new_course
C16_Witness ==
    /\ det_pc = "notified"
    /\ \E a \in DOMAIN all_changes :
          /\ previous_courses(previous_state, a) = <<CourseA1>>
          /\ student_grades[a].courses = <<CourseA1, CourseB1>>
          /\ notifications = <<Event("new_course", a, "B")>>
\* =================================== grade_change_detector.py: _compare_exams
\* SpecExams: _compare_exams on exam lists of bounded length. The parser
\* writes an entry as "<type>: <score>" (html1.py, line 151).

ExamF9 == <<"F", ":", "9">>
ExamM7 == <<"M", ":", ":", "7">>
ExamStrings == {ExamQ1, ExamQ10, ExamF9, ExamM7, <<>>}
ExamSeqs == UNION {[1..n -> ExamStrings] : n \in 0..MaxExams}

compare_exams ==
    /\ exams_pc = "call"
    /\ exam_changes' = _compare_exams(exams_old, exams_new)
    /\ exams_pc' = "done"
    /\ ExamsOnly
    /\ UNCHANGED <<exams_old, exams_new>>

InitExams ==
    /\ IdleFlag
    /\ IdleAlerts
    /\ IdleOrch
    /\ IdleStore
    /\ IdleFetch
    /\ IdleCompare
    /\ IdleDetect
    /\ IdleParse
    /\ exams_old \in ExamSeqs
    /\ exams_new \in ExamSeqs
    /\ exam_changes = <<>>
    /\ exams_pc = "call"

NextExams == compare_exams

SpecExams == InitExams /\ [][NextExams]_vars

\* ------------------------------------------------------- claims, SpecExams
\* the label of an exam entry is its text before the first colon, its score
\* the text after it
HasColon(str) == \E i \in 1..Len(str) : str[i] = ":"
FirstColon(str) == CHOOSE i \in 1..Len(str) : str[i] = ":" /\ \A j \in 1..(i - 1) : str[j] # ":"
Label(str) == IF HasColon(str) THEN strip(SubSeq(str, 1, FirstColon(str) - 1)) ELSE str
Score(str) == IF HasColon(str) THEN strip(SubSeq(str, FirstColon(str) + 1, Len(str))) ELSE <<>>
LinesOf(kind) == {i \in 1..Len(exam_changes) : exam_changes[i].kind = kind}

\* C14: a new exam entry whose label occurs in the old list, always with
\* another score, gives a changed line with the old and the new score and no
\* added line.
C14_ChangedScoreIsChanged ==
    exams_pc = "done" =>
        \A e \in Range(exams_new) :
            LET same_label == {o \in Range(exams_old) : Label(o) = Label(e)} IN
            (HasColon(e) /\ same_label # {} /\ \A o \in same_label : Score(o) # Score(e)) =>
                /\ \E i \in LinesOf("Guncellendi") :
                      /\ exam_changes[i].exam = Label(e)
                      /\ exam_changes[i].new = Score(e)
                      /\ \E o \in same_label : exam_changes[i].old = Score(o)
                /\ \A i \in LinesOf("Yeni") : exam_changes[i].exam # e

\* C15: a new exam entry whose label has no counterpart in the old list gives
\* exactly one added line for each time it occurs.
C15_NewLabelIsAdded ==
    exams_pc = "done" =>
        \A e \in Range(exams_new) :
            (\A o \in Range(exams_old) : Label(o) # Label(e)) =>
                Cardinality({i \in LinesOf("Yeni") : exam_changes[i].exam = e})
                    = Cardinality({i \in 1..Len(exams_new) : exams_new[i] = e})

\* C15 witness: the old list is empty and the new entry F:9 is marked added
C15_Witness ==
    /\ exams_pc = "done"
    /\ exams_old = <<>>
    /\ exams_new = <<ExamF9>>
    /\ exam_changes = <<[kind |-> "Yeni", exam |-> ExamF9]>>

\* C33: an entry of the new list that is identical to an entry of the old list
\* produces no diff line: when every new entry occurs in the old list the
\* result is empty, and no added line ever names an entry the old list holds.
C33_IdenticalEntryNoLine ==
    exams_pc = "done" =>
        /\ Range(exams_new) \subseteq Range(exams_old) => exam_changes = <<>>
        /\ \A i \in LinesOf("Yeni") : exam_changes[i].exam \notin Range(exams_old)
\* ====================================================== html1.py: HtmlParser
\* SpecParse: the fetch cycles of one account. get_page_content builds a new
\* HtmlParser for every page it retrieved (login.py, line 214); the parser
\* parses, notifies and saves inside its constructor.

\* Python's None, or the dictionary {"courses": course_list}
NoData == [is_none |-> TRUE, courses |-> <<>>]
Data(course_list) == [is_none |-> FALSE, courses |-> course_list]

\* HtmlParser.__init__, lines 32-36, and _parse_courses: a new instance, whose
\* previous_data is None, holds the courses of the page
parser_init(course_list) ==
    /\ parse_pc = "idle"
    /\ parse_pc' = "notify"
    /\ parsed_courses' = course_list
    /\ previous_data' = NoData
    /\ sent' = 0
    /\ delivery' = "none"
    /\ save_outcome' = "none"
    /\ UNCHANGED <<stored_courses, token_set>>
    /\ ParseOnly

\* _has_changes, lines 186-200, with check_changes at its default True
_has_changes == previous_data.is_none \/ previous_data # Data(parsed_courses)

\* how requests.post and raise_for_status end (telegram.py, lines 45-46): the
\* message is posted, a RequestException, or an exception of another class
PostOutcomes == {"sent", "failed", "raised"}

\* TelegramNotifier.send_message, telegram.py lines 35-51: False without token
\* or chat id, and nothing is posted; True when the post succeeded; False when
\* it raised a RequestException, which is caught; another exception is not
send_message(o) == IF token_set THEN o ELSE "failed"

\* _send_telegram_notification, lines 208-215: where the method goes on after
\* the send ended with o: the except clause takes every Exception, and line
\* 220 follows in each case
after_send_NoCatch(o) == IF o = "raised" THEN "raised" ELSE "save"

after_send(o) == "save"

\* _send_telegram_notification, lines 205-217
_send_telegram_notification ==
    /\ parse_pc = "notify"
    /\ IF _has_changes
         THEN /\ previous_data' = Data(parsed_courses)
              /\ \E o \in PostOutcomes :
                   /\ delivery' = send_message(o)
                   /\ sent' = sent + (IF send_message(o) = "sent" THEN 1 ELSE 0)
                   /\ parse_pc' = after_send(send_message(o))
         ELSE /\ delivery' = "skipped"
              /\ parse_pc' = "save"
              /\ UNCHANGED <<previous_data, sent>>
    /\ UNCHANGED <<parsed_courses, stored_courses, token_set, save_outcome>>
    /\ ParseOnly

\* line 220 with _save_grades_to_file, lines 222-245: the account's entry of
\* student_grades.json becomes the courses of this cycle, unless reading or
\* writing the file raises, which is caught and logged
parser_save ==
    /\ parse_pc = "save"
    /\ parse_pc' = "idle"
    /\ \E written \in BOOLEAN :
         /\ stored_courses' = IF written THEN Data(parsed_courses)
                                         ELSE stored_courses
         /\ save_outcome' = IF written THEN "written" ELSE "failed"
    /\ UNCHANGED <<parsed_courses, previous_data, token_set, sent, delivery>>
    /\ ParseOnly

InitParse ==
    /\ IdleFlag
    /\ IdleAlerts
    /\ IdleOrch
    /\ IdleStore
    /\ IdleFetch
    /\ IdleCompare
    /\ IdleDetect
    /\ IdleExams
    /\ parse_pc = "idle"
    /\ parsed_courses = <<>>
    /\ previous_data = NoData
    /\ stored_courses = NoData
    /\ token_set \in BOOLEAN
    /\ sent = 0
    /\ delivery = "none"
    /\ save_outcome = "none"

NextParse ==
    \/ \E c \in SnapshotLists : parser_init(c)
    \/ _send_telegram_notification
    \/ parser_save

SpecParse == InitParse /\ [][NextParse]_vars

\* ------------------------------------------------------- claims, SpecParse
\* C17: no message is sent in a cycle whose fetched courses equal the
\* account's last persisted snapshot.
C17_NoMessageWithoutChange ==
    (parse_pc = "save" /\ sent > 0) => stored_courses # Data(parsed_courses)

\* C31: in every cycle in which a page is parsed the snapshot is saved,
\* whether the send succeeded, returned failure or raised: the exception of a
\* send never leaves the parser, the save is the step that follows the send
\* and can write the parsed courses after each outcome of it, and a save that
\* wrote left exactly the parsed courses in the store.
C31_SavedWhateverTheSend ==
    /\ parse_pc \in {"off", "idle", "notify", "save"}
    /\ delivery # "none" =>
          \/ parse_pc = "save" /\ save_outcome = "none"
          \/ parse_pc = "idle" /\ save_outcome # "none"
    /\ parse_pc = "save" => ENABLED (parser_save /\ stored_courses' = Data(parsed_courses))
    /\ save_outcome = "written" => stored_courses = Data(parsed_courses)

\* C31 witness: the send raised, and the snapshot of the cycle, which has
\* courses and differs from the stored one, was written all the same
C31_Witness ==
    /\ delivery = "raised"
    /\ save_outcome = "written"
    /\ parsed_courses # <<>>
    /\ stored_courses = Data(parsed_courses)

\* ------------------------------------------ claims, Spec: error_tracker.py
\* C18: a worker task that ended in a failure of its account's cycle (the
\* fetch returned False or raised) has left a fetch-error record of that
\* account in error_tracking.json.
C18_FailureIsRecorded ==
    \A l \in Loops : \A a \in Accounts :
        task[l][a] \in {"done_fail", "done_exc"} => a \in fetch_errors

\* ================================================= main.py run as a script
\* SpecLive: run_monitoring_loop called by lines 221-222, without the GUI:
\* one loop, which nothing stops, while bot_settings.json and
\* users_config.json are rewritten from outside the process. The claims are
\* about a change made between two iterations, so the files change while the
\* loop is in its inter-iteration wait.
InWait == \E l \in Loops : pc[l] \in {"sleep_check", "sleeping"}

\* the lists users_config.json can hold: the first n accounts, n >= 1
UserFiles == {[i \in 1..n |-> i] : n \in 1..NumAccounts}

\* bot_settings.json gets another "request_delay" (read by config.py, line 37)
edit_settings_file(d) ==
    /\ InWait
    /\ settings_file # d
    /\ settings_file' = d
    /\ OrchOnly
    /\ UNCHANGED <<bot_running, is_running, starts, REQUEST_DELAY, users_file, pc,
                   user_list, fut, task, current_delay, elapsed, stop_in_wait, stop_requested,
                   fetch_errors, users_py>>

\* users_config.json gets an account more or an account less (read by
\* config.py, lines 58-63)
edit_users_file(u) ==
    /\ InWait
    /\ users_file # u
    /\ users_file' = u
    /\ OrchOnly
    /\ UNCHANGED <<bot_running, is_running, starts, settings_file, REQUEST_DELAY, pc,
                   user_list, fut, task, current_delay, elapsed, stop_in_wait, stop_requested,
                   fetch_errors, users_py>>

\* config is imported (its load_settings call, line 45), then line 222 runs
InitLive ==
    /\ fetch_errors = {}
    /\ bot_running = TRUE
    /\ is_running = FALSE
    /\ starts = 0
    /\ settings_file = 0
    /\ REQUEST_DELAY = settings_file
    /\ users_file \in UserFiles
    /\ pc = [l \in Loops |-> IF l = 1 THEN "run" ELSE "unborn"]
    /\ user_list = [l \in Loops |-> <<>>]
    /\ fut = [l \in Loops |-> 0]
    /\ task = [l \in Loops |-> [a \in Users |-> "none"]]
    /\ current_delay = [l \in Loops |-> 0]
    /\ elapsed = [l \in Loops |-> 0]
    /\ stop_in_wait = [l \in Loops |-> FALSE]
    /\ stop_requested = [l \in Loops |-> "no"]
    /\ users_py = example_user_list
    /\ IdleStore
    /\ IdleFetch
    /\ IdleCompare
    /\ IdleOthers

NextLive ==
    \/ \E d \in Delays : edit_settings_file(d)
    \/ \E u \in UserFiles : edit_users_file(u)
    \/ \E l \in Loops : run_init(l)
    \/ \E l \in Loops : while_check(l)
    \/ \E l \in Loops : reload_and_submit(l)
    \/ \E l \in Loops : for_check(l)
    \/ \E l \in Loops : future_result(l)
    \/ \E l \in Loops : executor_exit(l)
    \/ \E l \in Loops : after_pool(l)
    \/ \E l \in Loops : sleep_check(l)
    \/ \E l \in Loops : sleep_step(l)
    \/ \E l \in Loops, a \in Users : process_user_start(l, a)
    \/ \E l \in Loops, a \in Users : process_user_fetch(l, a)

SpecLive == InitLive /\ [][NextLive]_vars

\* -------------------------------------------------------- claims, SpecLive
\* C19: the wait that follows an iteration lasts the request delay the
\* settings file held when that iteration started, so a delay changed between
\* two iterations is the delay of the next wait.
C19_WaitUsesReloadedDelay ==
    [][\A l \in Loops :
          (pc[l] = "after_pool" /\ pc'[l] = "sleep_check")
              => current_delay'[l] = settings_file
      ]_vars

\* C19 witness: the file started with delay 0 and was changed during a wait;
\* the loop is now sleeping through a wait of the new length
C19_Witness ==
    \E l \in Loops :
        /\ pc[l] = "sleeping"
        /\ current_delay[l] # 0
        /\ current_delay[l] = settings_file

\* C20: an iteration submits one task for each account of the users file as
\* it is when the iteration starts, and for no other account.
C20_IterationUsesCurrentUsers ==
    [][\A l \in Loops :
          (pc[l] = "reload" /\ pc'[l] = "for")
              => \A a \in Users : task'[l][a] = "queued" <=> a \in Range(users_file)
      ]_vars

\* ---------------------------------------------------- SpecLive, scheduled
\* the steps of the thread that runs run_monitoring_loop
LoopStep(l) ==
    \/ run_init(l)
    \/ while_check(l)
    \/ reload_and_submit(l)
    \/ for_check(l)
    \/ future_result(l)
    \/ executor_exit(l)
    \/ after_pool(l)
    \/ sleep_check(l)
    \/ sleep_step(l)

\* the steps of the pool's worker threads; each process_user call returns
TaskStep(l) == \E a \in Users : process_user_start(l, a) \/ process_user_fetch(l, a)

\* the threads are scheduled: a thread that can take a step takes one. The
\* files are edited from outside or not at all
SpecLiveFair ==
    /\ SpecLive
    /\ \A l \in Loops : WF_vars(LoopStep(l))
    /\ \A l \in Loops : WF_vars(TaskStep(l))

\* C26: a loop that nobody stops begins one iteration after the other,
\* whatever the outcomes of its tasks: it always comes to the reload and
\* submission of a next iteration.
C26_LoopKeepsIterating ==
    \A l \in Loops : [](Alive(l) => <>(pc[l] = "reload"))

\* C26 witness: an iteration has ended with one task that failed and one that
\* raised, and the loop is in the wait before the next iteration
C26_Witness ==
    \E l \in Loops : \E a, b \in Users :
        /\ pc[l] = "after_pool"
        /\ task[l][a] = "done_fail"
        /\ task[l][b] = "done_exc"

\* ------------------------------------------------ an empty account list
\* SpecEmpty: SpecLive started while users_config.json lists nobody; users.py
\* holds the example list it is shipped with, or was emptied
InitEmpty ==
    /\ fetch_errors = {}
    /\ bot_running = TRUE
    /\ is_running = FALSE
    /\ starts = 0
    /\ settings_file = 0
    /\ REQUEST_DELAY = settings_file
    /\ users_file = <<>>
    /\ pc = [l \in Loops |-> IF l = 1 THEN "run" ELSE "unborn"]
    /\ user_list = [l \in Loops |-> <<>>]
    /\ fut = [l \in Loops |-> 0]
    /\ task = [l \in Loops |-> [a \in Users |-> "none"]]
    /\ current_delay = [l \in Loops |-> 0]
    /\ elapsed = [l \in Loops |-> 0]
    /\ stop_in_wait = [l \in Loops |-> FALSE]
    /\ stop_requested = [l \in Loops |-> "no"]
    /\ users_py \in {<<>>, example_user_list}
    /\ IdleStore
    /\ IdleFetch
    /\ IdleCompare
    /\ IdleOthers

SpecEmpty == InitEmpty /\ [][NextLive]_vars

\* ------------------------------------------------------- claims, SpecEmpty
\* C27: a loop started on an empty account list runs no iteration: it never
\* gets past its start and no task is ever submitted.
C27_EmptyListRunsNothing ==
    \A l \in Loops :
        /\ pc[l] \in {"unborn", "run", "returned", "dead"}
        /\ \A a \in Users : task[l][a] = "none"

\* a call of run_monitoring_loop is in progress, or about to be made by a
\* thread that was started
CallInProgress(l) == pc[l] = "run" \/ InLoop(l)

\* C39: when a call of run_monitoring_loop has returned and no other call is
\* in progress, the flag _bot_running is clear.
C39_FlagClearAfterReturn ==
    (/\ \E l \in Loops : pc[l] \in {"returned", "dead"}
     /\ \A l \in Loops : ~CallInProgress(l))
        => ~bot_running

\* ------------------------------------------- the pool of one iteration
\* SpecPool: SpecLive started with NumUsers accounts, more than the pool has
\* workers
InitPool ==
    /\ fetch_errors = {}
    /\ bot_running = TRUE
    /\ is_running = FALSE
    /\ starts = 0
    /\ settings_file = 0
    /\ REQUEST_DELAY = settings_file
    /\ users_file = [i \in 1..NumUsers |-> i]
    /\ pc = [l \in Loops |-> IF l = 1 THEN "run" ELSE "unborn"]
    /\ user_list = [l \in Loops |-> <<>>]
    /\ fut = [l \in Loops |-> 0]
    /\ task = [l \in Loops |-> [a \in Users |-> "none"]]
    /\ current_delay = [l \in Loops |-> 0]
    /\ elapsed = [l \in Loops |-> 0]
    /\ stop_in_wait = [l \in Loops |-> FALSE]
    /\ stop_requested = [l \in Loops |-> "no"]
    /\ users_py = example_user_list
    /\ IdleStore
    /\ IdleFetch
    /\ IdleCompare
    /\ IdleOthers

SpecPool == InitPool /\ [][NextLive]_vars

\* -------------------------------------------------------- claims, SpecPool
\* C22: at every moment the tasks of one loop that are executing
\* process_user number at most min(3, number of accounts); a further task
\* starts only when a running one has finished.
C22_PoolBound ==
    \A l \in Loops :
        Cardinality(Running(l)) <= Min(MaxPoolWorkers, Len(user_list[l]))

\* C22 witness: the pool is full, three tasks are executing, and a fourth
\* submitted task waits in the queue
C22_Witness ==
    \E l \in Loops : \E a \in Users :
        /\ Cardinality(Running(l)) = MaxPoolWorkers
        /\ task[l][a] = "queued"
        /\ ~ENABLED process_user_start(l, a)

\* ===================================== the auto-survey flag across iterations
\* SpecFlag: the iterations of a running loop, each with one retrieval
\* (fetch_student_data of one account), while "auto_survey" of
\* bot_settings.json changes between iterations. login.py, line 10, is
\* "from config import ... AUTO_SURVEY": the name login.AUTO_SURVEY is bound
\* once, to the value config.AUTO_SURVEY has when login is imported;
\* load_settings rebinds config.AUTO_SURVEY only.

\* the settings file gets another "auto_survey" while the loop waits
edit_auto_survey(b) ==
    /\ flag_pc = "wait"
    /\ auto_survey_file # b
    /\ auto_survey_file' = b
    /\ UNCHANGED <<config_AUTO_SURVEY, flag_pc>>
    /\ UNCHANGED <<orchVars, storeVars, fetchVars, cmpVars, detectVars, examVars,
                   parseVars, alertVars>>

\* main.py, line 181, config.load_settings (config.py, line 40), then the
\* iteration's process_user calls fetch_student_data
iteration_start ==
    /\ flag_pc = "wait"
    /\ flag_pc' = "run"
    /\ config_AUTO_SURVEY' = auto_survey_file
    /\ fpc' = "call"
    /\ result' = "none"
    /\ now' = 0
    /\ session_start_time' = 0
    /\ html_content' = "none"
    /\ opens' = 0
    /\ first_login' = "pending"
    /\ parsers' = 0
    /\ closes' = 0
    /\ logins' = 0
    /\ renewals' = 0
    /\ renew_outcome' = "none"
    /\ age_at_check' = 0
    /\ page_gets' = 0
    /\ first_page' = "none"
    /\ survey_passes' = 0
    /\ survey_gets' = 0
    /\ UNCHANGED <<auto_survey_file, AUTO_SURVEY, SESSION_TIMEOUT, snapshot>>
    /\ UNCHANGED <<orchVars, storeVars, cmpVars, detectVars, examVars, parseVars,
                   alertVars>>

\* the task has returned; the loop goes into its wait
iteration_end ==
    /\ flag_pc = "run"
    /\ fpc = "done"
    /\ flag_pc' = "wait"
    /\ UNCHANGED <<auto_survey_file, config_AUTO_SURVEY>>
    /\ UNCHANGED <<orchVars, storeVars, fetchVars, cmpVars, detectVars, examVars,
                   parseVars, alertVars>>

\* config and login are imported: config.AUTO_SURVEY is loaded from the file
\* and login.AUTO_SURVEY is bound to it; no fetch has been made yet
InitFlag ==
    /\ IdleOrch
    /\ IdleStore
    /\ IdleCompare
    /\ IdleDetect
    /\ IdleExams
    /\ IdleParse
    /\ IdleAlerts
    /\ auto_survey_file \in BOOLEAN
    /\ config_AUTO_SURVEY = auto_survey_file
    /\ AUTO_SURVEY = config_AUTO_SURVEY
    /\ flag_pc = "wait"
    /\ fpc = "done"
    /\ result = "none"
    /\ now = 0
    /\ session_start_time = 0
    /\ SESSION_TIMEOUT \in Timeouts
    /\ html_content = "none"
    /\ opens = 0
    /\ first_login = "pending"
    /\ parsers = 0
    /\ snapshot = "stored"
    /\ closes = 0
    /\ logins = 0
    /\ renewals = 0
    /\ renew_outcome = "none"
    /\ age_at_check = 0
    /\ page_gets = 0
    /\ first_page = "none"
    /\ survey_passes = 0
    /\ survey_gets = 0

NextFlag ==
    \/ \E b \in BOOLEAN : edit_auto_survey(b)
    \/ iteration_start
    \/ iteration_end
    \/ clock_tick
    \/ fetch_enter
    \/ fetch_login
    \/ fetch_renew
    \/ get_page_content
    \/ survey_pass
    \/ get_page_again
    \/ parse_page
    \/ fetch_exit

SpecFlag == InitFlag /\ [][NextFlag]_vars

\* -------------------------------------------------------- claims, SpecFlag
\* C21: a retrieval that got the survey page attempts the resolution exactly
\* when the auto-survey setting, as the file held it when the iteration
\* started, is on.
C21_RetrievalUsesReloadedFlag ==
    (flag_pc = "run" /\ first_page = "survey")
        => ((fpc = "survey" \/ survey_passes > 0) <=> auto_survey_file)

\* --------------------------------------------- claims, Spec: start and stop
\* C23: a call of stop_bot leaves the flag clear and the GUI not running and
\* changes nothing else; a second call right after it, and a call on an
\* orchestrator that is not running, change nothing at all.
C23_StopIdempotent ==
    /\ [](~is_running => ~ENABLED gui_stop_bot)
    /\ [][gui_stop_bot =>
             /\ ~bot_running' /\ ~is_running'
             /\ stop_flag(bot_running') = bot_running'
             /\ UNCHANGED <<starts, settings_file, REQUEST_DELAY, users_file, pc,
                            user_list, fut, task, current_delay, elapsed>>
       ]_vars

\* C23 witness: stop_bot was called while a loop was in its wait; the GUI is
\* not running, so a second call returns at once
C23_Witness ==
    \E l \in Loops :
        /\ stop_in_wait[l]
        /\ ~is_running
        /\ ~bot_running
        /\ ~ENABLED gui_stop_bot

\* C24: a start request that is accepted finds no monitoring loop running, so
\* it never adds a second loop to a running one.
C24_StartWhileRunningIgnored ==
    [][start_bot => \A l \in Loops : ~Alive(l)]_vars

\* the for loop over the futures was left by the break of line 192, with
\* futures still to wait for: the loop saw the flag clear
BrokeOff(l) == fut[l] <= Len(user_list[l])

\* C25: a loop that saw the stop during its completion wait leaves the pool
\* for the finally block: it enters no inter-iteration wait and starts no
\* further iteration.
C25_StopInCompletionWaitEnds ==
    [][\A l \in Loops :
          (pc[l] = "after_pool" /\ BrokeOff(l) /\ pc'[l] # pc[l])
              => pc'[l] = "finally"
      ]_vars

\* the tasks of loop l that were submitted and have not finished
Unfinished(l) == {a \in Users : task[l][a] \in {"queued", "running"}}

\* C40: the iterations of one loop never overlap: a loop has unfinished
\* tasks only between the submission and the end of the with block, so the
\* reload and submission of the next iteration begin with every task of the
\* one before finished, also those whose result wait timed out or was left
\* out after a stop request.
C40_IterationsDoNotOverlap ==
    /\ [](\A l \in Loops : Unfinished(l) # {} => pc[l] \in {"for", "result", "shutdown"})
    /\ [][\A l \in Loops :
            (pc[l] = "shutdown" /\ pc'[l] # "shutdown") => Unfinished(l) = {}
       ]_vars

\* C40 witness: the result wait of one task timed out, a stop request made
\* the loop leave out the wait for the next, and the loop is held at the end
\* of the with block by the task that is still running
C40_Witness ==
    \E l \in Loops :
        /\ pc[l] = "shutdown"
        /\ TimedOutUnfinished(l) # {}
        /\ BrokeOff(l)
        /\ ~ENABLED executor_exit(l)

\* C37: at most one bot thread is inside run_monitoring_loop at any time.
C37_OneLoopAtATime ==
    Cardinality({l \in Loops : InLoop(l)}) <= 1

\* ------------------------------------------- the inter-iteration wait
\* SpecWait: the GUI with one account; the loop is started and never stopped,
\* and the request delay is saved from the settings tab at any time, with
\* values that are and that are not multiples of the poll step, zero and a
\* negative one included
WaitDelays == (0 - 1)..MaxDelay

InitWait ==
    /\ fetch_errors = {}
    /\ bot_running = TRUE
    /\ is_running = FALSE
    /\ starts = 0
    /\ settings_file \in WaitDelays
    /\ REQUEST_DELAY = settings_file
    /\ users_file = <<1>>
    /\ pc = [l \in Loops |-> "unborn"]
    /\ user_list = [l \in Loops |-> <<>>]
    /\ fut = [l \in Loops |-> 0]
    /\ task = [l \in Loops |-> [a \in Users |-> "none"]]
    /\ current_delay = [l \in Loops |-> 0]
    /\ elapsed = [l \in Loops |-> 0]
    /\ stop_in_wait = [l \in Loops |-> FALSE]
    /\ stop_requested = [l \in Loops |-> "no"]
    /\ users_py = example_user_list
    /\ IdleStore
    /\ IdleFetch
    /\ IdleCompare
    /\ IdleOthers

NextWait ==
    \/ start_bot
    \/ \E d \in WaitDelays : save_general_settings(d)
    \/ \E l \in Loops : run_init(l)
    \/ \E l \in Loops : while_check(l)
    \/ \E l \in Loops : reload_and_submit(l)
    \/ \E l \in Loops : for_check(l)
    \/ \E l \in Loops : future_result(l)
    \/ \E l \in Loops : executor_exit(l)
    \/ \E l \in Loops : after_pool(l)
    \/ \E l \in Loops : sleep_check(l)
    \/ \E l \in Loops : sleep_step(l)
    \/ \E l \in Loops, a \in Users : process_user_start(l, a)
    \/ \E l \in Loops, a \in Users : process_user_fetch(l, a)

SpecWait == InitWait /\ [][NextWait]_vars

\* -------------------------------------------------------- claims, SpecWait
\* the smallest number k of poll steps with k * check_interval >= d
Polls(d) ==
    CHOOSE k \in 0..(MaxDelay + 1) :
        /\ k * CheckInterval >= d
        /\ \A j \in 0..(k - 1) : j * CheckInterval < d

\* C34: with no stop requested, the wait takes REQUEST_DELAY as it is when
\* the pool has been left, every poll step adds one check interval, and the
\* wait ends after exactly the smallest number k of poll steps with
\* k * 0.5 s >= that delay (none for a delay <= 0): it is never shorter than
\* the delay and longer by less than one poll step.
C34_WaitIsSmallestMultiple ==
    [][\A l \in Loops :
          /\ (pc[l] = "after_pool" /\ pc'[l] = "sleep_check") =>
                (current_delay'[l] = REQUEST_DELAY /\ elapsed'[l] = 0)
          /\ (pc[l] = "sleeping" /\ pc'[l] # "sleeping") =>
                /\ elapsed'[l] = elapsed[l] + CheckInterval
                /\ current_delay'[l] = current_delay[l]
          /\ (pc[l] = "sleep_check" /\ pc'[l] = "sleeping") =>
                (elapsed'[l] = elapsed[l] /\ current_delay'[l] = current_delay[l])
          /\ (pc[l] = "sleep_check" /\ pc'[l] = "while" /\ bot_running) =>
                /\ elapsed[l] = Polls(current_delay[l]) * CheckInterval
                /\ elapsed[l] >= current_delay[l]
                /\ current_delay[l] <= 0 => elapsed[l] = 0
                /\ current_delay[l] > 0 => elapsed[l] - CheckInterval < current_delay[l]
      ]_vars

\* C34 witness: a wait of 0.7 s is at its end after two poll steps, while the
\* settings hold another delay by now
C34_Witness ==
    \E l \in Loops :
        /\ pc[l] = "sleep_check"
        /\ bot_running
        /\ current_delay[l] = CheckInterval + 2
        /\ elapsed[l] = 2 * CheckInterval
        /\ REQUEST_DELAY # current_delay[l]

\* ------------------------------------------------- Spec, scheduled
\* the steps of bot thread l: run_bot with the run_monitoring_loop it calls
ThreadStep(l) == LoopStep(l) \/ loop_finally(l) \/ run_bot_finally(l)

\* SpecStop: the GUI of Spec with one account in users_config.json, and its
\* threads scheduled: a bot thread that can take a step takes one, and every
\* process_user call returns. The buttons are pressed or not, as the user
\* likes
InitStop ==
    /\ fetch_errors = {}
    /\ bot_running = TRUE
    /\ is_running = FALSE
    /\ starts = 0
    /\ settings_file \in Delays
    /\ REQUEST_DELAY = settings_file
    /\ users_file = <<1>>
    /\ pc = [l \in Loops |-> "unborn"]
    /\ user_list = [l \in Loops |-> <<>>]
    /\ fut = [l \in Loops |-> 0]
    /\ task = [l \in Loops |-> [a \in Users |-> "none"]]
    /\ current_delay = [l \in Loops |-> 0]
    /\ elapsed = [l \in Loops |-> 0]
    /\ stop_in_wait = [l \in Loops |-> FALSE]
    /\ stop_requested = [l \in Loops |-> "no"]
    /\ users_py = example_user_list
    /\ IdleStore
    /\ IdleFetch
    /\ IdleCompare
    /\ IdleOthers

SpecStop ==
    /\ InitStop
    /\ [][Next]_vars
    /\ \A l \in Loops : WF_vars(ThreadStep(l))
    /\ \A l \in Loops : WF_vars(TaskStep(l))

\* thread l has left run_monitoring_loop
Exited(l) == pc[l] \in {"returned", "dead"}

\* C32: stop_bot only requests: the call is never blocked and moves no
\* thread; and a loop that was running when stop_bot was called comes to its
\* exit, with the running flag clear.
C32_StopRequestEndsLoop ==
    /\ [](is_running => ENABLED gui_stop_bot)
    /\ [][gui_stop_bot => UNCHANGED pc]_vars
    /\ \A l \in Loops :
          (stop_requested[l] = "loop") ~> (Exited(l) /\ ~bot_running)

\* a loop that was running when stop_bot was called comes to its exit
StopReachesLoop == \A l \in Loops : (stop_requested[l] = "loop") ~> Exited(l)

\* a loop goes to its exit only when stop_bot was called since its thread
\* was started
StopHitsOwnLoop ==
    [][\A l \in Loops :
          (pc[l] # "finally" /\ pc'[l] = "finally") => stop_requested[l] # "no"
      ]_vars

\* C38: a stop request is never lost and never hits the wrong loop: the loop
\* that was running when stop_bot was called exits, also when another
\* run_monitoring_loop is started before it has seen the flag, and a loop
\* started after the request is ended neither by that request nor by the
\* finally block of the earlier loop.
C38_StopNeitherLostNorMisdirected == StopReachesLoop /\ StopHitsOwnLoop

\* =========================================================== error_tracker.py
\* SpecAlerts: calls of the ErrorTracker methods, one after the other, on
\* error_tracking.json, which may be absent, unreadable (no JSON, or the open
\* fails), a JSON object, or another JSON value (a list, a number).
AlertKinds == {"surveys", "fetch_errors"}
\* the error_msg arguments: the default "" and a message
Messages == {"", "E"}
\* the values of datetime.now()
Stamps == 0..MaxStamp

AbsentStore == [kind |-> "absent", data |-> EmptyDict]
UnreadableStore == [kind |-> "unreadable", data |-> EmptyDict]
OtherStore == [kind |-> "other", data |-> EmptyDict]
ObjectStore(tracking) == [kind |-> "object", data |-> tracking]

\* _load_tracking, lines 32-38: the object of the file; {} when the file is
\* absent and, the exception being caught, when it cannot be read
_load_tracking_NoCatch(file) ==
    [raised |-> file.kind = "unreadable", data |-> file.data]

_load_tracking(file) == [raised |-> FALSE, data |-> file.data]

\* d[key] = value on a dictionary
put(d, key, value) == [x \in DOMAIN d \cup {key} |-> IF x = key THEN value ELSE d[x]]

\* del d[key]
del(d, key) == [x \in DOMAIN d \ {key} |-> d[x]]

\* tracking.get(kind, {}), lines 100 and 109
get_alerts(tracking, kind) ==
    IF kind \in DOMAIN tracking THEN tracking[kind] ELSE EmptyDict

\* lines 60-67 and 81-87: the key of the kind is created when missing, then
\* the account's entry is assigned
recorded_KeepFirst(tracking, kind, student_id, entry) ==
    IF student_id \in DOMAIN get_alerts(tracking, kind)
      THEN tracking
      ELSE put(tracking, kind, put(get_alerts(tracking, kind), student_id, entry))

recorded(tracking, kind, student_id, entry) ==
    put(tracking, kind, put(get_alerts(tracking, kind), student_id, entry))

\* lines 119-120 and 131-132: the account's entry of the kind is deleted
cleared_AllKinds(tracking, kind, student_id) ==
    [k \in DOMAIN tracking |-> del(tracking[k], student_id)]

cleared(tracking, kind, student_id) ==
    put(tracking, kind, del(tracking[kind], student_id))

\* line 63: the entry of a survey alert
survey_entry(t) == [detail |-> "found", timestamp |-> t]

\* lines 84-85: error_msg or "Veri çekilemedi"
error_entry(error_msg, t) ==
    [detail |-> IF error_msg = "" THEN "Veri çekilemedi" ELSE error_msg,
     timestamp |-> t]

\* history of the latest call: the method, its student_id (0 when it takes
\* none), the kind of file it found, the alerts of its kind before it, how it
\* ended and what it returned
Call(op, student_id, before, status, value) ==
    [op |-> op, id |-> student_id, found |-> tracking_file.kind, before |-> before,
     status |-> status, value |-> value]

\* _save_tracking, lines 46-50: the file is written, or the open fails, which
\* is caught and logged
_save_tracking(data, written) ==
    /\ tracking_file' = IF written THEN ObjectStore(data) ELSE tracking_file
    /\ alert_written' = written

\* record_survey_found and record_fetch_error: load, assign, save. On a JSON
\* value that is no object the item assignment raises TypeError
record(op, kind, student_id, entry, t, written) ==
    /\ alert_clock' = t
    /\ LET loaded == _load_tracking(tracking_file)
           before == get_alerts(loaded.data, kind) IN
         IF loaded.raised \/ tracking_file.kind = "other"
           THEN /\ alert_result' = Call(op, student_id, before, "raised", EmptyDict)
                /\ alert_written' = FALSE
                /\ UNCHANGED tracking_file
           ELSE /\ alert_result' = Call(op, student_id, before, "returned", EmptyDict)
                /\ _save_tracking(recorded(loaded.data, kind, student_id, entry), written)
    /\ AlertsOnly

record_survey_found(student_id, t, written) ==
    /\ t \in alert_clock..MaxStamp
    /\ record("record_survey_found", "surveys", student_id, survey_entry(t), t, written)

record_fetch_error(student_id, error_msg, t, written) ==
    /\ t \in alert_clock..MaxStamp
    /\ record("record_fetch_error", "fetch_errors", student_id,
              error_entry(error_msg, t), t, written)

\* get_survey_alerts and get_error_alerts: on a JSON value that is no object
\* tracking.get raises AttributeError
get(op, kind) ==
    /\ LET loaded == _load_tracking(tracking_file)
           before == get_alerts(loaded.data, kind) IN
         alert_result' = IF loaded.raised \/ tracking_file.kind = "other"
                           THEN Call(op, 0, before, "raised", EmptyDict)
                           ELSE Call(op, 0, before, "returned", before)
    /\ alert_written' = FALSE
    /\ UNCHANGED <<tracking_file, alert_clock>>
    /\ AlertsOnly

get_survey_alerts == get("get_survey_alerts", "surveys")

get_error_alerts == get("get_error_alerts", "fetch_errors")

\* clear_survey_alert and clear_error_alert: the file is written only when the
\* entry was there. On a JSON value that is no object the "in" test is false
\* (a list, a string) or raises TypeError (a number, null)
clear(op, kind, student_id, written) ==
    /\ LET loaded == _load_tracking(tracking_file)
           before == get_alerts(loaded.data, kind) IN
         IF loaded.raised
           THEN /\ alert_result' = Call(op, student_id, before, "raised", EmptyDict)
                /\ alert_written' = FALSE
                /\ UNCHANGED tracking_file
           ELSE IF tracking_file.kind = "other"
             THEN /\ \E status \in {"raised", "returned"} :
                       alert_result' = Call(op, student_id, before, status, EmptyDict)
                  /\ alert_written' = FALSE
                  /\ UNCHANGED tracking_file
             ELSE /\ alert_result' = Call(op, student_id, before, "returned", EmptyDict)
                  /\ IF student_id \in DOMAIN before
                       THEN _save_tracking(cleared(loaded.data, kind, student_id), written)
                       ELSE /\ alert_written' = FALSE
                            /\ UNCHANGED tracking_file
    /\ UNCHANGED alert_clock
    /\ AlertsOnly

clear_survey_alert(student_id, written) ==
    clear("clear_survey_alert", "surveys", student_id, written)

clear_error_alert(student_id, written) ==
    clear("clear_error_alert", "fetch_errors", student_id, written)

\* the file is deleted, or damaged, from outside
store_lost(file) ==
    /\ tracking_file.kind = "object"
    /\ tracking_file' = file
    /\ UNCHANGED <<alert_clock, alert_written, alert_result>>
    /\ AlertsOnly

InitAlerts ==
    /\ IdleOrch
    /\ IdleStore
    /\ IdleFetch
    /\ IdleCompare
    /\ IdleDetect
    /\ IdleExams
    /\ IdleParse
    /\ IdleFlag
    /\ tracking_file \in {AbsentStore, UnreadableStore, OtherStore, ObjectStore(EmptyDict)}
    /\ alert_clock = 0
    /\ alert_written = FALSE
    /\ alert_result = Call("none", 0, EmptyDict, "returned", EmptyDict)

NextAlerts ==
    \/ \E a \in Accounts, t \in Stamps, w \in BOOLEAN : record_survey_found(a, t, w)
    \/ \E a \in Accounts, m \in Messages, t \in Stamps, w \in BOOLEAN :
          record_fetch_error(a, m, t, w)
    \/ get_survey_alerts
    \/ get_error_alerts
    \/ \E a \in Accounts, w \in BOOLEAN : clear_survey_alert(a, w)
    \/ \E a \in Accounts, w \in BOOLEAN : clear_error_alert(a, w)
    \/ \E f \in {AbsentStore, UnreadableStore} : store_lost(f)

SpecAlerts == InitAlerts /\ [][NextAlerts]_vars

\* ------------------------------------------------------ claims, SpecAlerts
\* the alerts of a kind as the getters see them, now and after the step
AlertsNow(kind) == get_alerts(_load_tracking(tracking_file).data, kind)
AlertsNext(kind) == get_alerts(_load_tracking(tracking_file').data, kind)

\* the alerts of the kind after the step are those before it with the
\* account's entry set to the given one: no entry more, no other entry changed
Replaced(kind, student_id, entry) ==
    /\ DOMAIN AlertsNext(kind) = DOMAIN AlertsNow(kind) \cup {student_id}
    /\ AlertsNext(kind)[student_id] = entry
    /\ \A b \in DOMAIN AlertsNow(kind) \ {student_id} :
          AlertsNext(kind)[b] = AlertsNow(kind)[b]

\* C28: the store holds one record at most per account and kind, and a record
\* call leaves, for its account and kind, exactly the record of this call
\* (its detail and its timestamp), whether or not there was one before, and
\* adds or changes no other record of the kind; a call whose write failed
\* leaves the store as it was.
C28_RecordIsIdempotent ==
    /\ [](\A kind \in AlertKinds : DOMAIN AlertsNow(kind) \subseteq Accounts)
    /\ [][\A a \in Accounts :
            /\ ((\E t \in Stamps, w \in BOOLEAN : record_survey_found(a, t, w))
                   /\ alert_result'.status = "returned")
                 => IF alert_written'
                      THEN Replaced("surveys", a, survey_entry(alert_clock'))
                      ELSE UNCHANGED tracking_file
            /\ \A m \in Messages :
                 ((\E t \in Stamps, w \in BOOLEAN : record_fetch_error(a, m, t, w))
                     /\ alert_result'.status = "returned")
                   => IF alert_written'
                        THEN Replaced("fetch_errors", a, error_entry(m, alert_clock'))
                        ELSE UNCHANGED tracking_file
       ]_vars

\* C28 witness: a fetch error was recorded for an account that had one
\* already; the store holds the new record in the place of the old one and
\* the same accounts as before
C28_Witness ==
    /\ alert_result.op = "record_fetch_error"
    /\ alert_written
    /\ alert_result.id \in DOMAIN alert_result.before
    /\ DOMAIN AlertsNow("fetch_errors") = DOMAIN alert_result.before
    /\ AlertsNow("fetch_errors")[alert_result.id] # alert_result.before[alert_result.id]

\* a step of a method that records or clears an alert of the kind
SurveyStep(a) ==
    \/ \E t \in Stamps, w \in BOOLEAN : record_survey_found(a, t, w)
    \/ \E w \in BOOLEAN : clear_survey_alert(a, w)

ErrorStep(a) ==
    \/ \E m \in Messages, t \in Stamps, w \in BOOLEAN : record_fetch_error(a, m, t, w)
    \/ \E w \in BOOLEAN : clear_error_alert(a, w)

\* the account's alert of the kind is the same before and after the step
SameAlert(kind, b) ==
    /\ b \in DOMAIN AlertsNext(kind) <=> b \in DOMAIN AlertsNow(kind)
    /\ b \in DOMAIN AlertsNow(kind) => AlertsNext(kind)[b] = AlertsNow(kind)[b]

\* C29: recording or clearing a survey alert leaves the fetch-error alerts as
\* they were, recording or clearing a fetch-error alert leaves the survey
\* alerts as they were, and neither changes an alert of another account.
C29_KindsIndependent ==
    [][\A a \in Accounts :
          /\ SurveyStep(a) => AlertsNext("fetch_errors") = AlertsNow("fetch_errors")
          /\ ErrorStep(a) => AlertsNext("surveys") = AlertsNow("surveys")
          /\ (SurveyStep(a) \/ ErrorStep(a)) =>
                \A b \in Accounts \ {a} : \A kind \in AlertKinds : SameAlert(kind, b)
      ]_vars

\* C29 witness: the survey alert of an account that has alerts of both kinds
\* was cleared, while another account has a survey alert too; the account's
\* fetch-error alert and the other account's alert are still there
C29_Witness ==
    /\ alert_result.op = "clear_survey_alert"
    /\ alert_written
    /\ alert_result.id \in DOMAIN alert_result.before
    /\ alert_result.id \notin DOMAIN AlertsNow("surveys")
    /\ alert_result.id \in DOMAIN AlertsNow("fetch_errors")
    /\ \E b \in Accounts \ {alert_result.id} : b \in DOMAIN AlertsNow("surveys")

\* a step of any method of the tracker
TrackerStep ==
    \/ \E a \in Accounts : SurveyStep(a) \/ ErrorStep(a)
    \/ get_survey_alerts
    \/ get_error_alerts

\* C30: on a store file that is missing or unreadable every method returns
\* without raising, and the two getters return the empty mapping.
C30_MissingStoreIsEmpty ==
    [][(tracking_file.kind \in {"absent", "unreadable"} /\ TrackerStep) =>
          /\ alert_result'.status = "returned"
          /\ (get_survey_alerts \/ get_error_alerts) => alert_result'.value = EmptyDict
      ]_vars

\* C30 witness: get_error_alerts was called on an unreadable file and
\* returned the empty mapping
C30_Witness ==
    /\ alert_result.op = "get_error_alerts"
    /\ alert_result.found = "unreadable"
    /\ alert_result.status = "returned"
    /\ alert_result.value = EmptyDict
====
